---------------------------- MODULE Spec2Model ----------------------------
(***************************************************************************)
(* Model of the kiosk chatbot's core (src/main.py): the response cache     *)
(* (IntelligentCache), the failover dispatcher with its health records     *)
(* (MultiModelAIManager) and the per-turn orchestration                    *)
(* (UltraAdvancedKioskChatbot.process_query).                              *)
(*                                                                         *)
(* Text is a sequence of one-character strings.  The md5 digest of the     *)
(* cache key is taken to be collision free, so a key is the text that is   *)
(* hashed.  Wall-clock time is a counter of hours that never runs back.    *)
(***************************************************************************)
EXTENDS Integers, Sequences, FiniteSets, TLC

---------------------------------------------------------------------------
(* Bounds of the model and scaled-down configuration values.               *)

\* cache_ttl_hours of KioskConfig, scaled down (hours)
ttl_hours == 2
\* max_size of IntelligentCache, scaled down
max_size == 2
\* the clock stops advancing here
MaxTime == 3
\* the entries of the cache carry at most this many hits in all
MaxHits == 1
\* number of fallback models configured (KioskConfig.fallback_models)
MaxFallbacks == 2
\* context_window_size of KioskConfig, scaled down (characters)
context_window_size == 2
\* max_input_length of KioskConfig, scaled down (characters)
max_input_length == 4
\* process_query is called at most this many times
MaxRequests == 2
\* KioskConfig.max_conversation_turns, scaled down
max_conversation_turns == 1
\* the sessions created in a run
MaxSessions == 2
\* the calls of log_session in a run
MaxFlushes == 2
\* a conversation goes on until the history of its session is this long, and
\* for one more question
MaxHistory == 4
\* the threads that call the cache at the same time
NThreads == 2
\* the cache operations the threads start in a run
MaxOps == 3
\* the clients of the web app
NClients == 2
\* the events the clients send in a run
MaxEvents == 4

---------------------------------------------------------------------------
(* Text helpers: str.lower(), str.strip(), len(), concatenation.            *)

UpperChars == <<"A","B","C","D","E","F","G","H","I","J","K","L","M",
                "N","O","P","Q","R","S","T","U","V","W","X","Y","Z">>
LowerChars == <<"a","b","c","d","e","f","g","h","i","j","k","l","m",
                "n","o","p","q","r","s","t","u","v","w","x","y","z">>
Digits == {"0","1","2","3","4","5","6","7","8","9"}
Whitespace == {" ", "\t", "\n", "\r"}

UpperSet == { UpperChars[i] : i \in 1..Len(UpperChars) }

LowerChar(c) ==
    IF c \in UpperSet
    THEN LowerChars[CHOOSE i \in 1..Len(UpperChars) : UpperChars[i] = c]
    ELSE c

\* str.lower()
Lower(s) == [i \in 1..Len(s) |-> LowerChar(s[i])]

\* str.strip(): drop leading and trailing whitespace
Strip(s) ==
    LET nonws == {i \in 1..Len(s) : s[i] \notin Whitespace}
    IN  IF nonws = {} THEN <<>>
        ELSE LET lo == CHOOSE i \in nonws : \A j \in nonws : i <= j
                 hi == CHOOSE i \in nonws : \A j \in nonws : j <= i
             IN  SubSeq(s, lo, hi)

\* Optional[str]
None == [present |-> FALSE, value |-> <<>>]
Some(v) == [present |-> TRUE, value |-> v]

---------------------------------------------------------------------------
(* IntelligentCache.  The dict is a sequence of entries in insertion order  *)
(* (the iteration order of a Python dict), each entry carrying its key.     *)

VARIABLES
    cache,      \* IntelligentCache.cache
    now,        \* datetime.now()
    lastOp,     \* history: the last cache operation, its arguments and its result
    lock,       \* IntelligentCache._lock: the thread that holds it, 0 when free
    threads     \* the threads that call the cache: where each is in get or set

lockVars == <<lock, threads>>

cacheVars == <<cache, now, lastOp, lockVars>>

VARIABLES
    models,        \* MultiModelAIManager.models: the keys of the initialised
                   \* fallbacks, in dict order
    model_health,  \* MultiModelAIManager.model_health
    gr_pc,         \* get_response: "idle", "try", "inflight" or "done"
    gr_args,       \* get_response: its arguments prompt and context
    gr_candidates, \* get_response: the list the loop enumerates
    gr_attempt,    \* get_response: the loop index
    gr_ret,        \* get_response: the pair returned
    gr_log,        \* history: the invocations of the call, started and ended
    gr_health0     \* history: model_health when the call started

dispVars == <<models, model_health, gr_pc, gr_args, gr_candidates, gr_attempt,
              gr_ret, gr_log, gr_health0>>

VARIABLES
    config,              \* UltraAdvancedKioskChatbot.config
    sessions,            \* the UserSession objects created so far; a session
                         \* is referred to by its position here
    active_sessions,     \* UltraAdvancedKioskChatbot.active_sessions: id -> session
    current_session,     \* UltraAdvancedKioskChatbot.current_session, 0 for None
    performance_metrics, \* UltraAdvancedKioskChatbot.performance_metrics
    analytics_log,       \* the calls made to AdvancedAnalytics, in order
    pq_pc,               \* process_query: "idle" or "awaiting" (get_response)
    pq,                  \* process_query: its argument and locals
    pq_ret,              \* process_query: the pair returned
    pq_calls,            \* history: what the call of process_query has used
    loop                 \* run_interactive_session: "none" (not run),
                         \* "running" or "ended"

orchVars == <<config, sessions, active_sessions, current_session,
              performance_metrics, analytics_log, pq_pc, pq, pq_ret, pq_calls,
              loop>>

VARIABLES
    chatbot_lock,  \* web_app.chatbot_lock: the client whose handler holds it,
                   \* 0 when free
    clients        \* the clients of the web app: the handler the server runs
                   \* for each, and the session its connect created

webVars == <<chatbot_lock, clients>>

\* the queries and contexts handed to the cache
CacheQueries == { <<"a">>, <<" ","A">>, <<"b">> }
CacheContexts == { <<>>, <<"b">> }
\* the set calls made: two spellings of one query storing different responses
\* (one of them empty), and three more keys
CacheCalls ==
    { [query |-> <<"a">>,     context |-> <<>>,    response |-> <<>>],
      [query |-> <<" ","A">>, context |-> <<>>,    response |-> <<"o","k">>],
      [query |-> <<"b">>,     context |-> <<>>,    response |-> <<"n","o">>],
      [query |-> <<"a">>,     context |-> <<"b">>, response |-> <<"o","k">>],
      [query |-> <<"b">>,     context |-> <<"b">>, response |-> <<>>] }

\* the key without lower-casing the query
_generate_key_cased(query, context) == Strip(query) \o context

_generate_key(query, context) == Strip(Lower(query)) \o context

AllKeys == { _generate_key(q, c) : q \in CacheQueries, c \in CacheContexts }

Keys(c) == { c[i].key : i \in 1..Len(c) }
HasKey(c, k) == k \in Keys(c)
IndexOf(c, k) == CHOOSE i \in 1..Len(c) : c[i].key = k
Entry(c, k) == c[IndexOf(c, k)]

\* del self.cache[k]
Delete(c, k) == SelectSeq(c, LAMBDA e : e.key # k)

\* self.cache[k] = e : in place when the key is present, appended otherwise
Store(c, e) ==
    IF HasKey(c, e.key)
    THEN [i \in 1..Len(c) |-> IF c[i].key = e.key THEN e ELSE c[i]]
    ELSE Append(c, e)

\* the comparison with the boundary included
Fresh_inclusive(entry, t) == t - entry.timestamp <= ttl_hours

\* timedelta comparison of get
Fresh(entry, t) == t - entry.timestamp < ttl_hours

\* max in place of min: the first key among those of greatest timestamp
OldestKey_newest(c) ==
    LET i == CHOOSE i \in 1..Len(c) :
                 /\ \A j \in 1..Len(c) : c[i].timestamp >= c[j].timestamp
                 /\ \A j \in 1..(i-1) : c[j].timestamp < c[i].timestamp
    IN  c[i].key

\* min(self.cache.keys(), key=timestamp): the first key, in iteration order,
\* among those of least timestamp
OldestKey(c) ==
    LET i == CHOOSE i \in 1..Len(c) :
                 /\ \A j \in 1..Len(c) : c[i].timestamp <= c[j].timestamp
                 /\ \A j \in 1..(i-1) : c[j].timestamp > c[i].timestamp
    IN  c[i].key

\* get that stamps the entry it returns with the time of the read
cache_get_touch(c, query, context, t) ==
    LET key == _generate_key(query, context)
    IN  IF HasKey(c, key)
        THEN IF Fresh(Entry(c, key), t)
             THEN [cache  |-> Store(c, [Entry(c, key) EXCEPT !.hits = @ + 1,
                                                             !.timestamp = t]),
                   result |-> Some(Entry(c, key).response)]
             ELSE [cache |-> Delete(c, key), result |-> None]
        ELSE [cache |-> c, result |-> None]

\* get that returns None for an expired entry and leaves it in the cache
cache_get_keep(c, query, context, t) ==
    LET key == _generate_key(query, context)
    IN  IF HasKey(c, key) /\ Fresh(Entry(c, key), t)
        THEN [cache  |-> Store(c, [Entry(c, key) EXCEPT !.hits = @ + 1]),
              result |-> Some(Entry(c, key).response)]
        ELSE [cache |-> c, result |-> None]

\* IntelligentCache.get: the cache afterwards and the value returned
cache_get(c, query, context, t) ==
    LET key == _generate_key(query, context)
    IN  IF HasKey(c, key)
        THEN LET entry == Entry(c, key)
             IN  IF Fresh(entry, t)
                 THEN [cache  |-> Store(c, [entry EXCEPT !.hits = @ + 1]),
                       result |-> Some(entry.response)]
                 ELSE [cache |-> Delete(c, key), result |-> None]
        ELSE [cache |-> c, result |-> None]

\* set that evicts only once the cache is over capacity
cache_set_late(size, c, query, response, context, t) ==
    LET key == _generate_key(query, context)
        evicted == IF Len(c) > size THEN Delete(c, OldestKey(c)) ELSE c
    IN  Store(evicted, [key |-> key, response |-> response,
                        timestamp |-> t, hits |-> 0, query |-> query])

\* set that keeps the hit count of the entry it overwrites
cache_set_keeps_hits(size, c, query, response, context, t) ==
    LET key == _generate_key(query, context)
        evicted == IF Len(c) >= size THEN Delete(c, OldestKey(c)) ELSE c
    IN  Store(evicted, [key |-> key, response |-> response, timestamp |-> t,
                        hits |-> IF HasKey(evicted, key) THEN Entry(evicted, key).hits
                                 ELSE 0,
                        query |-> query])

\* IntelligentCache.set of a cache of max_size `size`: the cache afterwards
cache_set(size, c, query, response, context, t) ==
    LET key == _generate_key(query, context)
        evicted == IF Len(c) >= size THEN Delete(c, OldestKey(c)) ELSE c
    IN  Store(evicted, [key |-> key, response |-> response,
                        timestamp |-> t, hits |-> 0, query |-> query])

RECURSIVE TotalHits(_)
\* sum(entry['hits'] for entry in self.cache.values())
TotalHits(c) == IF c = <<>> THEN 0 ELSE Head(c).hits + TotalHits(Tail(c))

NoOp == [op |-> "none", query |-> <<>>, context |-> <<>>, response |-> <<>>,
         result |-> None, preLen |-> 0, hadKey |-> FALSE, age |-> -1, setBy |-> <<>>,
         evictedHits |-> -1]

\* the threads that call the cache
Threads == 1..NThreads

\* a thread outside get and set
IdleThread ==
    [pc |-> "idle", op |-> "none", query |-> <<>>, context |-> <<>>,
     response |-> <<>>, key |-> <<>>, tmp |-> 0, t |-> 0, result |-> None,
     cache0 |-> <<>>, started |-> 0, used |-> FALSE]

CacheInit ==
    /\ cache = <<>>
    /\ now = 0
    /\ lastOp = NoOp
    /\ lock = 0
    /\ threads = [t \in Threads |-> IdleThread]

\* what the history records of the cache just before an operation on `key`:
\* its size, whether it held the key, and the age of the key's entry
Before(key) ==
    [preLen |-> Len(cache), hadKey |-> HasKey(cache, key),
     age |-> IF HasKey(cache, key) THEN now - Entry(cache, key).timestamp ELSE -1,
     setBy |-> IF HasKey(cache, key) THEN Entry(cache, key).query ELSE <<>>]

\* what the history records of the entry a set on the cache c evicts: the
\* hits it had, -1 when the set evicts nothing
EvictedHits(size, c) ==
    IF Len(c) >= size THEN Entry(c, OldestKey(c)).hits ELSE -1

\* a caller invokes cache.set(query, response, context)
CacheSet(query, response, context) ==
    LET b == Before(_generate_key(query, context))
    IN  /\ cache' = cache_set(max_size, cache, query, response, context, now)
        /\ lastOp' = [op |-> "set", query |-> query, context |-> context,
                      response |-> response, result |-> None,
                      preLen |-> b.preLen, hadKey |-> b.hadKey, age |-> b.age,
                      setBy |-> b.setBy,
                      evictedHits |-> EvictedHits(max_size, cache)]
        /\ UNCHANGED <<now, lockVars, dispVars, orchVars, webVars>>

\* a caller invokes cache.get(query, context)
CacheGet(query, context) ==
    LET b == Before(_generate_key(query, context))
        r == cache_get(cache, query, context, now)
    IN  /\ TotalHits(cache) < MaxHits
        /\ cache' = r.cache
        /\ lastOp' = [op |-> "get", query |-> query, context |-> context,
                      response |-> <<>>, result |-> r.result,
                      preLen |-> b.preLen, hadKey |-> b.hadKey, age |-> b.age,
                      setBy |-> b.setBy, evictedHits |-> -1]
        /\ UNCHANGED <<now, lockVars, dispVars, orchVars, webVars>>

\* the clock advances
Tick ==
    /\ now < MaxTime
    /\ now' = now + 1
    /\ UNCHANGED <<cache, lastOp, lockVars, dispVars, orchVars, webVars>>

CacheNext ==
    \/ \E s \in CacheCalls : CacheSet(s.query, s.response, s.context)
    \/ \E q \in CacheQueries, c \in CacheContexts : CacheGet(q, c)
    \/ Tick

\* set and get calls whose query and context, put end to end, spell the same
\* text, split at different places
SplitSets ==
    { [query |-> <<"a","b">>, context |-> <<"c">>, response |-> <<"o","k">>],
      [query |-> <<"b">>,     context |-> <<>>,    response |-> <<"n","o">>] }
SplitGets ==
    { [query |-> <<"a">>,     context |-> <<"b","c">>],
      [query |-> <<"A","B">>, context |-> <<"c">>],
      [query |-> <<"b">>,     context |-> <<>>] }

SplitNext ==
    \/ \E s \in SplitSets : CacheSet(s.query, s.response, s.context)
    \/ \E g \in SplitGets : CacheGet(g.query, g.context)
    \/ Tick

---------------------------------------------------------------------------
(* IntelligentCache called by several threads.  A thread computes the key,   *)
(* takes the lock, runs the statements of the with block one at a time and   *)
(* releases the lock; another thread may run between any two statements.     *)

\* a lock that any thread can take at any time
CanAcquire_always(l) == TRUE

\* threading.Lock: acquire goes through only when the lock is free
CanAcquire(l) == l = 0

\* thread t is at statement p
At(t, p) == threads[t].pc = p

\* thread t goes to statement p with the fields of r changed
Goto(t, r) == threads' = [threads EXCEPT ![t] = r]

\* the operations started so far
OpsStarted == threads[1].started

\* thread t calls get(query, context) or set(query, response, context): the
\* key is computed before the lock is asked for.  The threads are alike, so
\* they are numbered in the order of their first call
T_Call(t, op, query, response, context) ==
    /\ At(t, "idle")
    /\ OpsStarted < MaxOps
    /\ \A u \in 1..(t - 1) : threads[u].used
    /\ threads' = [u \in Threads |->
          IF u = t
          THEN [IdleThread EXCEPT !.pc = "acquire", !.op = op, !.query = query,
                                  !.context = context, !.response = response,
                                  !.key = _generate_key(query, context),
                                  !.started = threads[u].started + 1,
                                  !.used = TRUE]
          ELSE [threads[u] EXCEPT !.started = @ + 1]]
    /\ UNCHANGED <<cache, now, lastOp, lock, dispVars, orchVars, webVars>>

\* with self._lock: the thread enters the block
T_Acquire(t) ==
    /\ At(t, "acquire")
    /\ CanAcquire(lock)
    /\ lock' = t
    /\ Goto(t, [threads[t] EXCEPT !.pc = IF threads[t].op = "get" THEN "g_check"
                                                                  ELSE "s_check",
                                  !.cache0 = cache, !.t = now])
    /\ UNCHANGED <<cache, now, lastOp, dispVars, orchVars, webVars>>

\* get: if key in self.cache
T_GetCheck(t) ==
    /\ At(t, "g_check")
    /\ Goto(t, [threads[t] EXCEPT !.pc = IF HasKey(cache, threads[t].key)
                                         THEN "g_fresh" ELSE "release"])
    /\ UNCHANGED <<cache, now, lastOp, lock, dispVars, orchVars, webVars>>

\* get: entry = self.cache[key]; the age test.  An entry that another thread
\* has removed meanwhile raises KeyError, which leaves the block
T_GetFresh(t) ==
    /\ At(t, "g_fresh")
    /\ Goto(t, [threads[t] EXCEPT
                   !.pc = IF ~HasKey(cache, threads[t].key) THEN "release"
                          ELSE IF Fresh(Entry(cache, threads[t].key), now)
                          THEN "g_load" ELSE "g_delete",
                   !.t = now])
    /\ UNCHANGED <<cache, now, lastOp, lock, dispVars, orchVars, webVars>>

\* get: entry['hits'] += 1, the read of the count
T_GetLoad(t) ==
    /\ At(t, "g_load")
    /\ Goto(t, [threads[t] EXCEPT
                   !.pc = IF HasKey(cache, threads[t].key) THEN "g_store" ELSE "release",
                   !.tmp = IF HasKey(cache, threads[t].key)
                           THEN Entry(cache, threads[t].key).hits ELSE 0])
    /\ UNCHANGED <<cache, now, lastOp, lock, dispVars, orchVars, webVars>>

\* get: entry['hits'] += 1, the write of the count, and return entry['response']
T_GetStore(t) ==
    /\ At(t, "g_store")
    /\ LET k == threads[t].key
       IN  IF HasKey(cache, k)
           THEN /\ cache' = [cache EXCEPT ![IndexOf(cache, k)].hits = threads[t].tmp + 1]
                /\ Goto(t, [threads[t] EXCEPT !.pc = "release",
                               !.result = Some(Entry(cache, k).response)])
           ELSE /\ cache' = cache
                /\ Goto(t, [threads[t] EXCEPT !.pc = "release"])
    /\ UNCHANGED <<now, lastOp, lock, dispVars, orchVars, webVars>>

\* get: del self.cache[key]
T_GetDelete(t) ==
    /\ At(t, "g_delete")
    /\ cache' = Delete(cache, threads[t].key)
    /\ Goto(t, [threads[t] EXCEPT !.pc = "release"])
    /\ UNCHANGED <<now, lastOp, lock, dispVars, orchVars, webVars>>

\* set: if len(self.cache) >= self.max_size
T_SetCheck(t) ==
    /\ At(t, "s_check")
    /\ Goto(t, [threads[t] EXCEPT !.pc = IF Len(cache) >= max_size
                                         THEN "s_evict" ELSE "s_store"])
    /\ UNCHANGED <<cache, now, lastOp, lock, dispVars, orchVars, webVars>>

\* set: oldest_key = min(...); del self.cache[oldest_key]
T_SetEvict(t) ==
    /\ At(t, "s_evict")
    /\ cache' = IF cache = <<>> THEN cache ELSE Delete(cache, OldestKey(cache))
    /\ Goto(t, [threads[t] EXCEPT !.pc = "s_store"])
    /\ UNCHANGED <<now, lastOp, lock, dispVars, orchVars, webVars>>

\* set: self.cache[key] = {'response': ..., 'timestamp': now, 'hits': 0}
T_SetStore(t) ==
    /\ At(t, "s_store")
    /\ cache' = Store(cache, [key |-> threads[t].key, response |-> threads[t].response,
                              timestamp |-> now, hits |-> 0,
                              query |-> threads[t].query])
    /\ Goto(t, [threads[t] EXCEPT !.pc = "release", !.t = now])
    /\ UNCHANGED <<now, lastOp, lock, dispVars, orchVars, webVars>>

\* the with block is left: the lock is released and the call returns
T_Release(t) ==
    /\ At(t, "release")
    /\ lock' = IF lock = t THEN 0 ELSE lock
    /\ Goto(t, [IdleThread EXCEPT !.started = threads[t].started, !.used = TRUE])
    /\ UNCHANGED <<cache, now, lastOp, dispVars, orchVars, webVars>>

\* what the threads ask of the cache
ThreadSets == { s \in CacheCalls : s.response # <<>> }
ThreadGets == { <<"b">> }

ThreadNext ==
    \/ \E t \in Threads : \E s \in ThreadSets :
           T_Call(t, "set", s.query, s.response, s.context)
    \/ \E t \in Threads : \E q \in ThreadGets : T_Call(t, "get", q, <<>>, <<>>)
    \/ \E t \in Threads : T_Acquire(t)
    \/ \E t \in Threads : T_GetCheck(t)
    \/ \E t \in Threads : T_GetFresh(t)
    \/ \E t \in Threads : T_GetLoad(t)
    \/ \E t \in Threads : T_GetStore(t)
    \/ \E t \in Threads : T_GetDelete(t)
    \/ \E t \in Threads : T_SetCheck(t)
    \/ \E t \in Threads : T_SetEvict(t)
    \/ \E t \in Threads : T_SetStore(t)
    \/ \E t \in Threads : T_Release(t)
    \/ Tick

\* the statements inside the with block
InLock == { "g_check", "g_fresh", "g_load", "g_store", "g_delete",
            "s_check", "s_evict", "s_store", "release" }

\* what the operation of thread t does when nothing runs between the taking
\* of the lock and its release: get or set applied to the cache found
Atomically(t) ==
    LET th == threads[t]
    IN  IF th.op = "get"
        THEN cache_get(th.cache0, th.query, th.context, th.t)
        ELSE [cache  |-> cache_set(max_size, th.cache0, th.query, th.response,
                                   th.context, th.t),
              result |-> None]

\* C17: get and set called from several threads behave as if run one at a
\* time.  A thread inside the with block holds the lock, so at most one thread
\* is inside; the cache never holds more than max_size entries; and when a
\* thread reaches the end of the block the cache and the value returned are
\* those of the whole get (check, expire, delete, count the hit) or the whole
\* set (check, evict, insert) applied to the cache it found on entry: no hit
\* is lost and no entry is seen half written.
C17_OneAtATime ==
    /\ Len(cache) <= max_size
    /\ \A t \in Threads :
          /\ threads[t].pc \in InLock => lock = t
          /\ At(t, "release") =>
                /\ cache = Atomically(t).cache
                /\ threads[t].result = Atomically(t).result

\* a get that hit and counted its hit while a set of another thread, started
\* meanwhile, waits for the lock
C17_Witness ==
    \E t, u \in Threads :
        /\ t # u
        /\ At(t, "release") /\ threads[t].op = "get"
        /\ threads[t].result # None
        /\ Entry(cache, threads[t].key).hits = Entry(threads[t].cache0, threads[t].key).hits + 1
        /\ At(u, "acquire") /\ threads[u].op = "set"

---------------------------------------------------------------------------
(* MultiModelAIManager: the failover dispatcher and the health records.     *)
(* One call of get_response runs in steps: each candidate's invocation is   *)
(* handed to the executor and awaited, and ends with a result or an error.  *)

\* a fixed message is one token of text
DifficultiesMsg == <<"I'm experiencing technical difficulties. Please try again in a moment.">>
UnavailableMsg == <<"Service temporarily unavailable.">>

\* ModelProvider.OLLAMA.value
ProviderOllama == "ollama"
FallbackNames == <<"llama2", "mistral", "phi3", "gemma">>
\* KioskConfig.fallback_models: (provider, name) pairs in configured order
fallback_models ==
    [i \in 1..MaxFallbacks |-> [provider |-> ProviderOllama, name |-> FallbackNames[i]]]

\* model_key = f"{provider.value}_{model_name}"
ModelKey(m) == m.provider \o "_" \o m.name

\* the subsequences of a sequence: the fallbacks whose creation did not fail
RECURSIVE SubSeqs(_)
SubSeqs(q) ==
    IF q = <<>> THEN { <<>> }
    ELSE LET rest == SubSeqs(Tail(q))
         IN  rest \cup { <<Head(q)>> \o r : r \in rest }

NoError == "None"
\* str(e) of a failed invocation
ErrorTexts == { "timed out", "connection refused" }

\* what chain.invoke returns: an object with .content, a dict with 'text',
\* a list, or a plain string; text is the content, the 'text' entry, or
\* str(result), and items are the elements of a list
RawResults ==
    { [kind |-> "message", text |-> <<" ","o","k","\n">>, items |-> <<>>],
      [kind |-> "dict",    text |-> <<"n","o"," ">>,      items |-> <<>>],
      [kind |-> "list",    text |-> <<>>, items |-> << <<" ","o","k">>, <<"n","o">> >>],
      [kind |-> "str",     text |-> <<"o","k">>,          items |-> <<>>],
      [kind |-> "message", text |-> <<" ">>,              items |-> <<>>],
      [kind |-> "list",    text |-> <<"[","]">>,          items |-> <<>>] }

\* no raw result: the invocation has not returned one
NoRaw == [kind |-> "none", text |-> <<>>, items |-> <<>>]

\* the formats with the text of a dict left untrimmed
NormalizeResult_untrimmed(result) ==
    IF result.kind = "message" THEN Strip(result.text)
    ELSE IF result.kind = "dict" THEN result.text
    ELSE IF result.kind = "list" /\ Len(result.items) > 0 THEN Strip(result.items[1])
    ELSE Strip(result.text)

\* the response formats of get_response
NormalizeResult(result) ==
    IF result.kind = "message" THEN Strip(result.text)
    ELSE IF result.kind = "dict" THEN Strip(result.text)
    ELSE IF result.kind = "list" /\ Len(result.items) > 0 THEN Strip(result.items[1])
    ELSE Strip(result.text)

\* the fallbacks recorded unhealthy left out of the list
Candidates_healthy(ms) ==
    <<"primary">> \o SelectSeq(ms, LAMBDA k : model_health[k].healthy)

\* the fallbacks tried last first
Candidates_reversed(ms) ==
    <<"primary">> \o [i \in 1..Len(ms) |-> ms[Len(ms) + 1 - i]]

\* [("primary", self.current_model)] + list(self.models.items())
Candidates(ms) == <<"primary">> \o ms

\* a failure that leaves the record as it was
MarkUnhealthy_skip(h, key, error) == h

\* a health update that records the primary as well
MarkUnhealthy_primary(h, key, error) ==
    [k \in DOMAIN h \cup {key} |->
        IF k = key THEN [healthy |-> FALSE, last_error |-> error] ELSE h[k]]

\* the health update of the except branch
MarkUnhealthy(h, key, error) ==
    IF key # "primary"
    THEN [k \in DOMAIN h \cup {key} |->
            IF k = key THEN [healthy |-> FALSE, last_error |-> error] ELSE h[k]]
    ELSE h

\* the health update after a success
MarkHealthy(h, key) ==
    IF key # "primary" THEN [h EXCEPT ![key].healthy = TRUE] ELSE h

\* the sentinel one past the last index
IsLastAttempt_past(attempt, ms) == attempt = Len(ms) + 1

\* the sentinel one before the last index
IsLastAttempt_early(attempt, ms) == attempt = Len(ms) - 1

\* attempt == len(self.models)
IsLastAttempt(attempt, ms) == attempt = Len(ms)

\* a loop that goes on to the next candidate after a success
LoopStep_goes_on(success, attempt, ms, ncand) ==
    IF ~success /\ IsLastAttempt(attempt, ms) THEN "exhausted"
    ELSE IF attempt + 1 < ncand THEN "next"
    ELSE IF success THEN "return"
    ELSE "fall_off"

\* what the loop does once an invocation has ended: return the response,
\* return the exhaustion message, go to the next candidate, or leave the loop
LoopStep(success, attempt, ms, ncand) ==
    IF success THEN "return"
    ELSE IF IsLastAttempt(attempt, ms) THEN "exhausted"
    ELSE IF attempt + 1 < ncand THEN "next"
    ELSE "fall_off"

\* a loop index that stays at the failed candidate
NextAttempt_same(attempt) == attempt

\* enumerate: the index of the next candidate
NextAttempt(attempt) == attempt + 1

NoRet == [response |-> <<>>, model_key |-> "none"]

\* MultiModelAIManager.__init__ and initialize_models, the fallbacks of keys
\* ms being those whose creation succeeded
DispInit(ms) ==
    /\ models = ms
    /\ model_health = [k \in {models[i] : i \in 1..Len(models)} |->
                          [healthy |-> TRUE, last_error |-> NoError]]
    /\ gr_pc = "idle"
    /\ gr_args = [prompt |-> <<>>, context |-> <<>>]
    /\ gr_candidates = <<>>
    /\ gr_attempt = 0
    /\ gr_ret = NoRet
    /\ gr_log = <<>>
    /\ gr_health0 = model_health

\* get_response is entered: the loop's list is built
gr_enter(prompt, context) ==
    /\ gr_pc' = "try"
    /\ gr_args' = [prompt |-> prompt, context |-> context]
    /\ gr_candidates' = Candidates(models)
    /\ gr_attempt' = 0
    /\ gr_ret' = NoRet
    /\ gr_log' = <<>>
    /\ gr_health0' = model_health
    /\ UNCHANGED <<models, model_health>>

\* the key of the candidate at the loop index (enumerate counts from 0)
CurrentKey == gr_candidates[gr_attempt + 1]

\* context[:self.config.context_window_size]
Truncate(context) ==
    SubSeq(context, 1, IF Len(context) < context_window_size
                       THEN Len(context) ELSE context_window_size)

\* the chain of the current candidate is handed to the executor
GR_Invoke ==
    /\ gr_pc = "try"
    /\ gr_pc' = "inflight"
    /\ gr_log' = Append(gr_log, [event |-> "invoke", key |-> CurrentKey,
                                 error |-> NoError, result |-> <<>>, raw |-> NoRaw,
                                 context |-> Truncate(gr_args.context),
                                 question |-> gr_args.prompt])
    /\ UNCHANGED <<models, model_health, gr_args, gr_candidates, gr_attempt,
                   gr_ret, gr_health0>>
    /\ UNCHANGED <<cacheVars, orchVars, webVars>>

\* the loop after the invocation has ended
gr_continue(success, response) ==
    LET step == LoopStep(success, gr_attempt, models, Len(gr_candidates))
    IN  /\ gr_pc' = IF step = "next" THEN "try" ELSE "done"
        /\ gr_attempt' = IF step = "next" THEN NextAttempt(gr_attempt) ELSE gr_attempt
        /\ gr_ret' = CASE step = "return"    -> [response |-> response, model_key |-> CurrentKey]
                       [] step = "exhausted" -> [response |-> DifficultiesMsg, model_key |-> "error"]
                       [] step = "fall_off"  -> [response |-> UnavailableMsg, model_key |-> "error"]
                       [] OTHER              -> gr_ret

\* the invocation returns a result
GR_Succeed(result) ==
    /\ gr_pc = "inflight"
    /\ model_health' = MarkHealthy(model_health, CurrentKey)
    /\ gr_log' = Append(gr_log, [event |-> "ok", key |-> CurrentKey,
                                 error |-> NoError,
                                 result |-> NormalizeResult(result), raw |-> result,
                                 context |-> <<>>, question |-> <<>>])
    /\ gr_continue(TRUE, NormalizeResult(result))
    /\ UNCHANGED <<models, gr_args, gr_candidates, gr_health0>>
    /\ UNCHANGED <<cacheVars, orchVars, webVars>>

\* the invocation raises
GR_Fail(error) ==
    /\ gr_pc = "inflight"
    /\ model_health' = MarkUnhealthy(model_health, CurrentKey, error)
    /\ gr_log' = Append(gr_log, [event |-> "fail", key |-> CurrentKey,
                                 error |-> error, result |-> <<>>, raw |-> NoRaw,
                                 context |-> <<>>, question |-> <<>>])
    /\ gr_continue(FALSE, <<>>)
    /\ UNCHANGED <<models, gr_args, gr_candidates, gr_health0>>
    /\ UNCHANGED <<cacheVars, orchVars, webVars>>

\* a caller awaits get_response(prompt, context)
GR_Call(prompt, context) ==
    /\ gr_pc \in {"idle", "done"}
    /\ gr_enter(prompt, context)
    /\ UNCHANGED <<cacheVars, orchVars, webVars>>

DispPrompts == { <<"h","i">> }
DispContexts == { <<>>, <<"a","b","c","d">> }

DispNext ==
    \/ \E p \in DispPrompts, c \in DispContexts : GR_Call(p, c)
    \/ GR_Invoke
    \/ \E r \in RawResults : GR_Succeed(r)
    \/ \E e \in ErrorTexts : GR_Fail(e)

---------------------------------------------------------------------------
(* UltraAdvancedKioskChatbot: sessions and process_query.  A call of        *)
(* process_query runs up to its await of get_response in one step and from  *)
(* the return of get_response to its own return in another.                 *)

TooLongMsg == <<"Please keep your question shorter for better assistance.">>
RefusalMsg == <<"I can only help with appropriate questions. Please rephrase your request.">>
ProcessingErrorMsg == <<"I encountered an error processing your request. Please try again.">>

\* max_size of the cache the chatbot builds: IntelligentCache(cache_ttl_hours)
default_max_size == 1000

\* the configurations the chatbot is built with
Configs ==
    { [enable_content_filtering |-> TRUE,  enable_analytics |-> TRUE,
       default_language |-> "en", primary_model_name |-> "neural-chat"],
      [enable_content_filtering |-> FALSE, enable_analytics |-> FALSE,
       default_language |-> "es", primary_model_name |-> "neural-chat"] }

\* the values of the Language enum used
Languages == { "en", "es" }

\* \w of the re module
IsWordChar(c) ==
    \/ c \in UpperSet
    \/ c \in { LowerChars[i] : i \in 1..Len(LowerChars) }
    \/ c \in Digits
    \/ c = "_"

\* \b at position i of text, between text[i] and text[i+1]
WordBoundary(text, i) ==
    LET before == i >= 1 /\ IsWordChar(text[i])
        after == i + 1 <= Len(text) /\ IsWordChar(text[i + 1])
    IN  before # after

\* re.search(r'\b(?:w1|w2|...)\b', text) finds a match
Search(ws, text) ==
    \E w \in ws : \E i \in 1..Len(text) :
        /\ i + Len(w) - 1 <= Len(text)
        /\ SubSeq(text, i, i + Len(w) - 1) = w
        /\ WordBoundary(text, i - 1)
        /\ WordBoundary(text, i + Len(w) - 1)

\* the alternatives of each pattern of _is_inappropriate_content
inappropriate_patterns ==
    << { <<"h","a","c","k">>, <<"c","r","a","c","k">>, <<"p","i","r","a","t">>, <<"i","l","l","e","g","a","l">> },
       { <<"d","r","u","g">>, <<"w","e","a","p","o","n">>, <<"v","i","o","l","e","n","c","e">> },
       { <<"h","a","t","e">>, <<"d","i","s","c","r","i","m","i","n","a","t">>, <<"r","a","c","i","s","t">> } >>

\* the filter applied to the text as typed, without lower-casing it
_is_inappropriate_content_cased(text) ==
    /\ config.enable_content_filtering
    /\ \E p \in 1..Len(inappropriate_patterns) : Search(inappropriate_patterns[p], text)

\* UltraAdvancedKioskChatbot._is_inappropriate_content
_is_inappropriate_content(text) ==
    /\ config.enable_content_filtering
    /\ \E p \in 1..Len(inappropriate_patterns) :
           Search(inappropriate_patterns[p], Lower(text))

\* the length check with the limit itself rejected
TooLong_inclusive(user_input) == Len(user_input) >= max_input_length

\* len(user_input) > self.config.max_input_length
TooLong(user_input) == Len(user_input) > max_input_length

\* the truth value Python gives an Optional[str]
Truthy(x) == x.present /\ x.value # <<>>

\* UserSession(id=..., preferred_language=...)
NewSession(id, language) ==
    [id |-> id, questions_count |-> 0, total_response_time |-> 0,
     preferred_language |-> language, conversation_history |-> <<>>,
     errors_encountered |-> 0]

\* the session state of the chatbot, as one value
SessionState == [sessions |-> sessions, active |-> active_sessions,
                 current |-> current_session]

\* a create_session that makes the new session current without storing it
create_session_unregistered(st, t) ==
    LET id == [t |-> t, n |-> Cardinality(DOMAIN st.active)]
    IN  [sessions |-> Append(st.sessions, NewSession(id, config.default_language)),
         active   |-> st.active,
         current  |-> Len(st.sessions) + 1]

\* UltraAdvancedKioskChatbot.create_session at time t.  The id is made of
\* int(time.time()) and len(active_sessions); two calls at the same reading
\* of the model's clock are two calls within one second
create_session(st, t) ==
    LET id == [t |-> t, n |-> Cardinality(DOMAIN st.active)]
        ref == Len(st.sessions) + 1
    IN  [sessions |-> Append(st.sessions, NewSession(id, config.default_language)),
         active   |-> [k \in DOMAIN st.active \cup {id} |->
                          IF k = id THEN ref ELSE st.active[k]],
         current  |-> ref]

RECURSIVE JoinLines(_)
\* "\n".join(parts)
JoinLines(parts) ==
    IF parts = <<>> THEN <<>>
    ELSE IF Len(parts) = 1 THEN parts[1]
    ELSE parts[1] \o <<"\n">> \o JoinLines(Tail(parts))

\* the whole history taken as the recent exchanges
Recent_all(history) == history

\* history[-3:]
Recent(history) ==
    SubSeq(history, IF Len(history) > 3 THEN Len(history) - 2 ELSE 1, Len(history))

RECURSIVE ContextParts(_)
ContextParts(exchanges) ==
    IF exchanges = <<>> THEN <<>>
    ELSE << <<"User: ">> \o Head(exchanges).question,
            <<"Assistant: ">> \o Head(exchanges).response >>
         \o ContextParts(Tail(exchanges))

\* UltraAdvancedKioskChatbot._format_conversation_context; the labels
\* "User: " and "Assistant: " are one token each
_format_conversation_context(session) ==
    IF session.conversation_history = <<>> THEN <<>>
    ELSE JoinLines(ContextParts(Recent(session.conversation_history)))

\* AccessibilityEngine.translate_text: the translation, or None when the
\* translator is missing or fails
translate_text(text, target, works) ==
    IF works THEN Some(<<"[" \o target \o "]">> \o text) ELSE None

NoCall == [user_input |-> <<>>, session |-> 0, start_time |-> 0, context |-> <<>>,
           metadata |-> [cached |-> FALSE, model_used |-> "unknown",
                         response_time |-> 0, language |-> "en", error |-> NoError]]
NoReturn == [response |-> <<>>, metadata |-> NoCall.metadata, outcome |-> "none"]
\* translation: "skipped" when translate_text was not called, "absent" when
\* it returned None, "done" when it returned a text
NoCalls == [gets |-> 0, sets |-> 0, dispatched |-> 0, logs |-> 0,
            translation |-> "skipped"]

\* UltraAdvancedKioskChatbot.__init__
OrchInit(cfg) ==
    /\ config = cfg
    /\ sessions = <<>>
    /\ active_sessions = [k \in {} |-> 0]
    /\ current_session = 0
    /\ performance_metrics = [total_requests |-> 0, cache_hits |-> 0]
    /\ analytics_log = <<>>
    /\ pq_pc = "idle"
    /\ pq = NoCall
    /\ pq_ret = NoReturn
    /\ pq_calls = NoCalls
    /\ loop = "none"

\* AdvancedAnalytics.log_session(session): one more call in the log
log_session(log, st) ==
    Append(log, [call |-> "log_session", session |-> st.current,
                 session_id |-> st.sessions[st.current].id,
                 question |-> <<>>, response |-> <<>>, cached |-> FALSE,
                 model_used |-> "unknown"])

\* the calls of log_session made so far
Flushes(log) == { i \in 1..Len(log) : log[i].call = "log_session" }

\* the log after "if enable_analytics: log_session(current_session)"
flush(log, st) == IF config.enable_analytics THEN log_session(log, st) ELSE log

\* del self.active_sessions[old_session_id]
drop_session(st) ==
    LET old_session_id == st.sessions[st.current].id
    IN  [st EXCEPT !.active = [k \in DOMAIN st.active \ {old_session_id} |-> st.active[k]]]

\* questions_count >= self.config.max_conversation_turns
TurnsReached(session) == session.questions_count >= max_conversation_turns

\* the session limit check at the top of the interactive loop: the session
\* state and the analytics log after it
rollover(st, log, t) ==
    IF TurnsReached(st.sessions[st.current])
    THEN [st |-> create_session(drop_session(st), t), log |-> flush(log, st)]
    ELSE [st |-> st, log |-> log]

\* the words handle_special_commands takes as commands
ExitCommands == { "exit", "quit", "bye", "goodbye", "done" }
ClearCommands == { "clear", "reset", "restart", "new" }

\* handle_special_commands(cmd) for the exit and the clear commands: the
\* session state and the analytics log after it, and what it returns
handle_special_commands(cmd, st, log, t) ==
    IF cmd \in ExitCommands
    THEN [st |-> st,
          log |-> IF st.current # 0 THEN flush(log, st) ELSE log,
          result |-> "exit"]
    ELSE [st |-> create_session(IF st.current # 0 THEN drop_session(st) ELSE st, t),
          log |-> IF st.current # 0 THEN flush(log, st) ELSE log,
          result |-> "cleared"]

\* process_query up to the await: validation and the cache lookup
pq_begin(user_input, session) ==
    IF TooLong(user_input)
    THEN [kind |-> "too_long", response |-> TooLongMsg, cache |-> cache,
          context |-> <<>>, gets |-> 0]
    ELSE IF _is_inappropriate_content(user_input)
    THEN [kind |-> "refused", response |-> RefusalMsg, cache |-> cache,
          context |-> <<>>, gets |-> 0]
    ELSE LET context == _format_conversation_context(session)
             g == cache_get(cache, user_input, context, now)
         IN  IF Truthy(g.result)
             THEN [kind |-> "hit", response |-> g.result.value, cache |-> g.cache,
                   context |-> context, gets |-> 1]
             ELSE [kind |-> "miss", response |-> <<>>, cache |-> g.cache,
                   context |-> context, gets |-> 1]

\* a hit branch that counts the question
serve_cached_counted(session) == [session EXCEPT !.questions_count = @ + 1]

\* the session after the hit branch of process_query: the branch fills the
\* metadata, counts the cache hit and returns
serve_cached(session) == session

\* process_query(user_input) runs until it returns or awaits get_response,
\* from the session state st0 and the analytics log log0 its caller left
pq_run(user_input, st0, log0) ==
    /\ LET st == IF st0.current = 0 THEN create_session(st0, now) ELSE st0
           session == st.sessions[st.current]
           metadata == [cached |-> FALSE, model_used |-> "unknown",
                        response_time |-> 0,
                        language |-> session.preferred_language, error |-> NoError]
           b == pq_begin(user_input, session)
       IN  /\ sessions' = IF b.kind = "hit"
                          THEN [st.sessions EXCEPT ![st.current] = serve_cached(@)]
                          ELSE st.sessions
           /\ active_sessions' = st.active
           /\ current_session' = st.current
           /\ cache' = b.cache
           /\ pq' = [user_input |-> user_input, session |-> st.current,
                     start_time |-> now, context |-> b.context,
                     metadata |-> metadata]
           /\ pq_calls' = [gets |-> b.gets, sets |-> 0, logs |-> 0,
                           translation |-> "skipped",
                           dispatched |-> IF b.kind = "miss" THEN 1 ELSE 0]
           /\ IF b.kind = "miss"
              THEN /\ pq_pc' = "awaiting"
                   /\ gr_enter(user_input, b.context)
                   /\ pq_ret' = NoReturn
                   /\ UNCHANGED performance_metrics
              ELSE /\ pq_pc' = "idle"
                   /\ pq_ret' = [response |-> b.response,
                                 metadata |-> [metadata EXCEPT !.cached = (b.kind = "hit")],
                                 outcome |-> b.kind]
                   /\ performance_metrics' =
                          [total_requests |-> performance_metrics.total_requests + 1,
                           cache_hits |-> performance_metrics.cache_hits
                                          + (IF b.kind = "hit" THEN 1 ELSE 0)]
                   /\ UNCHANGED dispVars
    /\ analytics_log' = log0
    /\ UNCHANGED <<now, lastOp, lockVars, config, loop>>

\* process_query(user_input) is called, as the web app's send_message handler
\* calls it for input that is no command, and runs until it returns or awaits
\* get_response
PQ_Begin(user_input) ==
    /\ pq_pc = "idle"
    /\ loop = "none"
    /\ performance_metrics.total_requests < MaxRequests
    /\ pq_run(user_input, SessionState, analytics_log)
    /\ UNCHANGED webVars

\* an except clause that counts nothing
pq_except_silent(session) == session

\* the except clause of process_query: one more error on the session
pq_except(session) == [session EXCEPT !.errors_encountered = @ + 1]

\* the response process_query hands to cache.set: the local variable
\* response, which holds the translation once there is one
stored_response(response, translated) == translated

\* the test process_query makes before it calls the translator
NeedsTranslation(session) == session.preferred_language # "en"

\* the translation taken whatever translate_text returned
apply_translation_blind(response, translated) == translated.value

\* if translated: response = translated
apply_translation(response, translated) ==
    IF Truthy(translated) THEN translated.value ELSE response

\* a session update that appends the exchange and counts nothing
record_turn_uncounted(session, exchange) ==
    [session EXCEPT !.conversation_history = Append(@, exchange)]

\* the session update of process_query: one more question, its response
\* time, and the exchange appended to the history
record_turn(session, exchange) ==
    [session EXCEPT
        !.questions_count = @ + 1,
        !.total_response_time = @ + exchange.metadata.response_time,
        !.conversation_history = Append(@, exchange)]

\* get_response has returned: translation, cache store, session update,
\* analytics, return.  log_interaction writes to the database and may raise;
\* the insert is then rolled back and the except clause runs
PQ_Finish(translator_works, log_raises) ==
    /\ pq_pc = "awaiting"
    /\ gr_pc = "done"
    /\ log_raises => config.enable_analytics
    /\ LET session == sessions[pq.session]
           translated == translate_text(gr_ret.response, session.preferred_language,
                                        translator_works)
           response == IF NeedsTranslation(session)
                       THEN apply_translation(gr_ret.response, translated)
                       ELSE gr_ret.response
           updated == [pq.metadata EXCEPT !.model_used = gr_ret.model_key,
                                          !.response_time = now - pq.start_time]
           \* the history entry and the pair returned share the one dict
           metadata == IF log_raises
                       THEN [updated EXCEPT !.error = "database error"]
                       ELSE updated
           turn == record_turn(session, [question |-> pq.user_input,
                                         response |-> response,
                                         metadata |-> metadata])
       IN  /\ cache' = cache_set(default_max_size, cache, pq.user_input,
                                 stored_response(gr_ret.response, response),
                                 pq.context, now)
           /\ sessions' = [sessions EXCEPT ![pq.session] =
                              IF log_raises THEN pq_except(turn) ELSE turn]
           /\ analytics_log' =
                  IF config.enable_analytics /\ ~log_raises
                  THEN Append(analytics_log,
                              [call |-> "log_interaction", session |-> pq.session,
                               session_id |-> session.id,
                               question |-> pq.user_input, response |-> response,
                               cached |-> metadata.cached,
                               model_used |-> gr_ret.model_key])
                  ELSE analytics_log
           /\ pq_ret' = IF log_raises
                        THEN [response |-> ProcessingErrorMsg, metadata |-> metadata,
                              outcome |-> "error"]
                        ELSE [response |-> response, metadata |-> metadata,
                              outcome |-> "answered"]
    /\ pq_pc' = "idle"
    /\ pq_calls' =
           [pq_calls EXCEPT
               !.sets = @ + 1,
               !.logs = IF config.enable_analytics THEN 1 ELSE 0,
               !.translation =
                   IF ~NeedsTranslation(sessions[pq.session]) THEN "skipped"
                   ELSE IF translator_works THEN "done" ELSE "absent"]
    /\ performance_metrics' = [performance_metrics EXCEPT !.total_requests = @ + 1]
    /\ UNCHANGED <<now, lastOp, lockVars, config, active_sessions, current_session, pq,
                   loop, dispVars, webVars>>

\* process_query(user_input) is called in a conversation that goes on, one
\* question after another in the same session
Conversation_Query(user_input) ==
    /\ pq_pc = "idle"
    /\ loop = "none"
    /\ performance_metrics.total_requests <= MaxHistory
    /\ pq_run(user_input, SessionState, analytics_log)
    /\ UNCHANGED webVars

\* UltraAdvancedKioskChatbot.change_language with a supported code
ChangeLanguage(language_code) ==
    /\ pq_pc = "idle"
    /\ current_session # 0
    /\ sessions[current_session].preferred_language # language_code
    /\ sessions' = [sessions EXCEPT ![current_session].preferred_language = language_code]
    /\ UNCHANGED <<cacheVars, dispVars, config, active_sessions, current_session,
                   performance_metrics, analytics_log, pq_pc, pq, pq_ret, pq_calls,
                   loop, webVars>>

\* the session state and the log are set to those of the record r
set_sessions(r) ==
    /\ sessions' = r.st.sessions
    /\ active_sessions' = r.st.active
    /\ current_session' = r.st.current
    /\ analytics_log' = r.log

\* the web app's send_message handler is given a command: it calls
\* handle_special_commands and returns
SpecialCommand(cmd) ==
    /\ pq_pc = "idle"
    /\ loop = "none"
    /\ cmd \in ClearCommands => Len(sessions) < MaxSessions
    /\ Cardinality(Flushes(analytics_log)) < MaxFlushes
    /\ set_sessions(handle_special_commands(cmd, SessionState, analytics_log, now))
    /\ UNCHANGED <<cacheVars, dispVars, config, performance_metrics, pq_pc, pq,
                   pq_ret, pq_calls, loop, webVars>>

\* the session limit check is due and the run has room for its new session
CanIterate ==
    /\ pq_pc = "idle"
    /\ loop = "running"
    /\ TurnsReached(sessions[current_session]) =>
           /\ Len(sessions) < MaxSessions
           /\ Cardinality(Flushes(analytics_log)) < MaxFlushes

\* one iteration of the interactive loop on input that is no command: the
\* session limit check, then process_query up to its return or its await
Loop_Query(user_input) ==
    /\ CanIterate
    /\ performance_metrics.total_requests < MaxRequests
    /\ LET r == rollover(SessionState, analytics_log, now)
       IN  pq_run(user_input, r.st, r.log)
    /\ UNCHANGED webVars

\* one iteration of the interactive loop on a command: the session limit
\* check, then handle_special_commands; after "exit" the loop is left and
\* its finally clause logs the current session
Loop_Command(cmd) ==
    /\ CanIterate
    /\ LET r == rollover(SessionState, analytics_log, now)
           h == handle_special_commands(cmd, r.st, r.log, now)
       IN  /\ cmd \in ClearCommands => Len(r.st.sessions) < MaxSessions
           /\ Cardinality(Flushes(r.log)) + 1 < MaxFlushes
           /\ IF h.result = "exit"
              THEN /\ set_sessions([st |-> h.st, log |-> flush(h.log, h.st)])
                   /\ loop' = "ended"
              ELSE /\ set_sessions(h)
                   /\ loop' = loop
    /\ UNCHANGED <<cacheVars, dispVars, config, performance_metrics, pq_pc, pq,
                   pq_ret, pq_calls, webVars>>

\* what users type: a question of exactly the longest length allowed, one the
\* filter rejects, and two over the limit, one of which matches the filter
UserInputs ==
    { <<"h","i","y","a">>,
      <<"H","A","C","K">>,
      <<"h","e","l","l","o">>,
      <<"a"," ","h","a","c","k">> }

\* what users type at the interactive prompt
LoopInputs == { <<"h","i","y","a">> }

\* the commands users type
Commands == { "exit", "clear" }

\* what the models answer and how they fail while the chatbot is driven
OrchResults == { r \in RawResults : r.kind = "message" }
OrchErrors == { "timed out" }

OrchNext ==
    \/ \E u \in UserInputs : PQ_Begin(u)
    \/ GR_Invoke
    \/ \E r \in OrchResults : GR_Succeed(r)
    \/ \E e \in OrchErrors : GR_Fail(e)
    \/ \E w \in BOOLEAN, x \in BOOLEAN : PQ_Finish(w, x)
    \/ \E l \in Languages : ChangeLanguage(l)

\* the web app's send_message handler: commands and questions
WebNext ==
    \/ \E u \in LoopInputs : PQ_Begin(u)
    \/ \E c \in Commands : SpecialCommand(c)
    \/ GR_Invoke
    \/ \E r \in OrchResults : GR_Succeed(r)
    \/ \E e \in OrchErrors : GR_Fail(e)
    \/ \E w \in BOOLEAN, x \in BOOLEAN : PQ_Finish(w, x)

\* a long conversation: questions that the primary model answers
ConversationNext ==
    \/ \E u \in LoopInputs : Conversation_Query(u)
    \/ GR_Invoke
    \/ \E r \in OrchResults : GR_Succeed(r)
    \/ \E w \in BOOLEAN, x \in BOOLEAN : PQ_Finish(w, x)

LoopNext ==
    \/ \E u \in LoopInputs : Loop_Query(u)
    \/ \E c \in Commands : Loop_Command(c)
    \/ GR_Invoke
    \/ \E r \in OrchResults : GR_Succeed(r)
    \/ \E e \in OrchErrors : GR_Fail(e)
    \/ \E w \in BOOLEAN, x \in BOOLEAN : PQ_Finish(w, x)
    \/ Tick

---------------------------------------------------------------------------
(* web_app: the handlers of the socket events connect, send_message,        *)
(* clear_session and change_model and of the route /api/switch-model.  The  *)
(* server runs each handler in a thread of its own; a handler is started,   *)
(* enters its "with chatbot_lock:" block, runs the body and leaves the      *)
(* block.  A turn of process_query is the body of send_message, so the      *)
(* steps of get_response and the return of process_query are steps of the   *)
(* handler that is in the block.                                             *)

Clients == 1..NClients

\* a client for which the server runs no handler.  session and started are
\* history: the session created for the client by its connect, by its own
\* clear, or by its own question when the chatbot had none, and the events
\* the server has been sent so far
IdleClient == [pc |-> "idle", event |-> "none", arg |-> <<>>, session |-> 0,
               started |-> 0]

\* the events sent so far
EventsStarted == clients[1].started

\* chatbot_lock = threading.Lock() and no client connected
WebInit ==
    /\ chatbot_lock = 0
    /\ clients = [c \in Clients |-> IdleClient]

\* the KioskConfig that initialize_chatbot(model_name) builds
WebConfig(model_name) ==
    [enable_content_filtering |-> TRUE, enable_analytics |-> TRUE,
     default_language |-> "en", primary_model_name |-> model_name]

\* a lock that is given to whoever asks
CanLock_always(l) == TRUE

\* threading.Lock.acquire returns once the lock is free
CanLock(l) == l = 0

\* model_health as initialize_models leaves it for the fallbacks ms
InitialHealth(ms) ==
    [k \in { ms[i] : i \in 1..Len(ms) } |-> [healthy |-> TRUE, last_error |-> NoError]]

\* a message that handle_special_commands takes as the clear command; a
\* command word is one token
IsClear(user_input) == Len(user_input) = 1 /\ user_input[1] \in ClearCommands

\* the body of handle_clear_session: the session state and the log after it
handle_clear_session(st, log, t) ==
    [st  |-> create_session(IF st.current # 0 THEN drop_session(st) ELSE st, t),
     log |-> IF st.current # 0 THEN flush(log, st) ELSE log]

\* the server starts the handler of an event of client c; it runs up to its
\* "with chatbot_lock:"
H_Start(c, event, arg) ==
    /\ clients[c].pc = "idle"
    /\ EventsStarted < MaxEvents
    /\ clients' = [d \in Clients |->
          IF d = c
          THEN [clients[d] EXCEPT !.pc = "waiting", !.event = event, !.arg = arg,
                                  !.started = @ + 1]
          ELSE [clients[d] EXCEPT !.started = @ + 1]]
    /\ UNCHANGED <<chatbot_lock, cacheVars, dispVars, orchVars>>

\* a client connects.  The clients are alike, so they connect in order
Connect(c) ==
    /\ clients[c].session = 0
    /\ \A d \in 1..(c - 1) : clients[d].session # 0
    /\ H_Start(c, "connect", <<>>)

\* a connected client sends a message that is not empty
SendMessage(c, user_input) ==
    /\ clients[c].session # 0
    /\ H_Start(c, "send_message", user_input)

\* a connected client asks for a new session
ClearSession(c) ==
    /\ clients[c].session # 0
    /\ H_Start(c, "clear_session", <<>>)

\* a connected client asks for another primary model
ChangeModel(c, model_name) ==
    /\ clients[c].session # 0
    /\ config.primary_model_name # model_name
    /\ H_Start(c, "change_model", <<model_name>>)

\* a page posts another primary model to /api/switch-model; no connection
\* is needed for it
SwitchModel(c, model_name) ==
    /\ config.primary_model_name # model_name
    /\ H_Start(c, "switch_model", <<model_name>>)

\* with chatbot_lock: the handler enters the block
H_Acquire(c) ==
    /\ clients[c].pc = "waiting"
    /\ CanLock(chatbot_lock)
    /\ chatbot_lock' = c
    /\ clients' = [clients EXCEPT ![c].pc = "locked"]
    /\ UNCHANGED <<cacheVars, dispVars, orchVars>>

\* the handler of client c is at the top of the block of event
InBody(c, event) == clients[c].pc = "locked" /\ clients[c].event = event

\* the body of handle_connect
H_Connect(c) ==
    /\ InBody(c, "connect")
    /\ LET st == create_session(SessionState, now)
       IN  /\ set_sessions([st |-> st, log |-> analytics_log])
           /\ clients' = [clients EXCEPT ![c].pc = "done", ![c].session = st.current]
    /\ UNCHANGED <<chatbot_lock, cacheVars, dispVars, config, performance_metrics,
                   pq_pc, pq, pq_ret, pq_calls, loop>>

\* the body of process_message on a command: handle_special_commands and
\* return.  log_session writes to the database and may raise; the exception
\* leaves the block and is caught outside it
H_Command(c, log_raises) ==
    /\ InBody(c, "send_message")
    /\ IsClear(clients[c].arg)
    /\ log_raises => (current_session # 0 /\ config.enable_analytics)
    /\ IF log_raises
       THEN /\ clients' = [clients EXCEPT ![c].pc = "done"]
            /\ UNCHANGED <<sessions, active_sessions, current_session, analytics_log>>
       ELSE LET h == handle_special_commands(clients[c].arg[1], SessionState,
                                             analytics_log, now)
            IN  /\ set_sessions(h)
                /\ clients' = [clients EXCEPT ![c].pc = "done",
                                              ![c].session = h.st.current]
    /\ UNCHANGED <<chatbot_lock, cacheVars, dispVars, config, performance_metrics,
                   pq_pc, pq, pq_ret, pq_calls, loop>>

\* the body of process_message on a question: handle_special_commands
\* returns None and process_query is run, here up to its return or its await
H_Question(c) ==
    /\ InBody(c, "send_message")
    /\ ~IsClear(clients[c].arg)
    /\ pq_run(clients[c].arg, SessionState, analytics_log)
    /\ clients' = [clients EXCEPT ![c].pc = "turn",
                                  ![c].session = IF current_session = 0
                                                 THEN Len(sessions) + 1 ELSE @]
    /\ UNCHANGED chatbot_lock

\* the body of handle_clear_session
H_ClearSession(c, log_raises) ==
    /\ InBody(c, "clear_session")
    /\ log_raises => (current_session # 0 /\ config.enable_analytics)
    /\ IF log_raises
       THEN /\ clients' = [clients EXCEPT ![c].pc = "done"]
            /\ UNCHANGED <<sessions, active_sessions, current_session, analytics_log>>
       ELSE LET h == handle_clear_session(SessionState, analytics_log, now)
            IN  /\ set_sessions(h)
                /\ clients' = [clients EXCEPT ![c].pc = "done",
                                              ![c].session = h.st.current]
    /\ UNCHANGED <<chatbot_lock, cacheVars, dispVars, config, performance_metrics,
                   pq_pc, pq, pq_ret, pq_calls, loop>>

\* the body of handle_change_model: the name is written to the config, then
\* a new MultiModelAIManager is built; when that raises, the old one stays
H_ChangeModel(c, ok) ==
    /\ InBody(c, "change_model")
    /\ config' = [config EXCEPT !.primary_model_name = clients[c].arg[1]]
    /\ model_health' = IF ok THEN InitialHealth(models) ELSE model_health
    /\ clients' = [clients EXCEPT ![c].pc = "done"]
    /\ UNCHANGED <<chatbot_lock, cacheVars, models, gr_pc, gr_args, gr_candidates,
                   gr_attempt, gr_ret, gr_log, gr_health0, sessions,
                   active_sessions, current_session, performance_metrics,
                   analytics_log, pq_pc, pq, pq_ret, pq_calls, loop>>

\* the body of switch_model: initialize_chatbot builds a new chatbot, with an
\* empty cache, no session and a new manager, and assigns it to the global;
\* when it fails the old chatbot stays.  The analytics database is the same
\* file, and the UserSession objects of the old chatbot stay where they are
H_SwitchModel(c, ok) ==
    /\ InBody(c, "switch_model")
    /\ IF ok
       THEN /\ config' = WebConfig(clients[c].arg[1])
            /\ cache' = <<>>
            /\ model_health' = InitialHealth(models)
            /\ active_sessions' = [k \in {} |-> 0]
            /\ current_session' = 0
            /\ performance_metrics' = [total_requests |-> 0, cache_hits |-> 0]
       ELSE UNCHANGED <<config, cache, model_health, active_sessions,
                        current_session, performance_metrics>>
    /\ clients' = [clients EXCEPT ![c].pc = "done"]
    /\ UNCHANGED <<chatbot_lock, now, lastOp, lockVars, models, gr_pc, gr_args,
                   gr_candidates, gr_attempt, gr_ret, gr_log, gr_health0,
                   sessions, analytics_log, pq_pc, pq, pq_ret, pq_calls, loop>>

\* the handler leaves the block: after the body of an event, or after
\* process_query has returned and the response has been emitted
H_Release(c) ==
    /\ \/ clients[c].pc = "done"
       \/ clients[c].pc = "turn" /\ pq_pc = "idle"
    /\ chatbot_lock' = 0
    /\ clients' = [clients EXCEPT ![c] = [IdleClient EXCEPT
                                             !.session = clients[c].session,
                                             !.started = clients[c].started]]
    /\ UNCHANGED <<cacheVars, dispVars, orchVars>>

\* what the clients send and the models they ask for; the model is none of
\* the configured fallbacks
WebMessages == LoopInputs \cup { <<"clear">> }
WebModels == { "llama3.2:3b" }

\* what the models answer while the web app is driven
WebResults == { r \in OrchResults : Len(r.text) > 1 }

\* a step of the handler that is inside the block
HolderStep ==
    \/ \E c \in Clients : H_Connect(c)
    \/ \E c \in Clients, x \in BOOLEAN : H_Command(c, x)
    \/ \E c \in Clients : H_Question(c)
    \/ \E c \in Clients, x \in BOOLEAN : H_ClearSession(c, x)
    \/ \E c \in Clients, ok \in BOOLEAN : H_ChangeModel(c, ok)
    \/ \E c \in Clients, ok \in BOOLEAN : H_SwitchModel(c, ok)
    \/ GR_Invoke
    \/ \E r \in WebResults : GR_Succeed(r)
    \/ \E e \in OrchErrors : GR_Fail(e)
    \/ PQ_Finish(TRUE, FALSE)
    \/ \E c \in Clients : H_Release(c)

ClientsNext ==
    \/ \E c \in Clients : Connect(c)
    \/ \E c \in Clients, m \in WebMessages : SendMessage(c, m)
    \/ \E c \in Clients : ClearSession(c)
    \/ \E c \in Clients, m \in WebModels : ChangeModel(c, m)
    \/ \E c \in Clients, m \in WebModels : SwitchModel(c, m)
    \/ \E c \in Clients : H_Acquire(c)
    \/ HolderStep

---------------------------------------------------------------------------
(* Specifications.                                                         *)

vars == <<cacheVars, dispVars, orchVars, webVars>>

\* the keys of the configured fallbacks, in configured order
ConfiguredKeys == [i \in 1..MaxFallbacks |-> ModelKey(fallback_models[i])]

\* KioskConfig() as the chatbot is built by default
DefaultConfig ==
    [enable_content_filtering |-> TRUE, enable_analytics |-> TRUE,
     default_language |-> "en", primary_model_name |-> "neural-chat"]

InitCache ==
    /\ CacheInit
    /\ WebInit
    /\ DispInit(ConfiguredKeys)
    /\ OrchInit(DefaultConfig)

\* the cache, driven by direct get and set calls
SpecCache == InitCache /\ [][CacheNext]_vars

\* the cache, driven by calls that split one text differently
SpecSplit == InitCache /\ [][SplitNext]_vars

\* the cache, called by several threads
SpecThreads == InitCache /\ [][ThreadNext]_vars

\* any of the configured fallbacks may have failed to initialise
InitDispatch ==
    /\ CacheInit
    /\ WebInit
    /\ \E ms \in SubSeqs(ConfiguredKeys) : DispInit(ms)
    /\ OrchInit(DefaultConfig)

\* the dispatcher, driven by direct get_response calls
SpecDispatch == InitDispatch /\ [][DispNext]_vars

\* the dispatcher when the event loop runs the call on and every invocation
\* handed to the executor returns or fails
SpecDispatchFair ==
    /\ SpecDispatch
    /\ WF_vars(GR_Invoke)
    /\ WF_vars((\E r \in RawResults : GR_Succeed(r)) \/ (\E e \in ErrorTexts : GR_Fail(e)))

\* the chatbot with one fallback model, under each configuration
Init ==
    /\ CacheInit
    /\ WebInit
    /\ DispInit(SubSeq(ConfiguredKeys, 1, 1))
    /\ \E cfg \in Configs : OrchInit(cfg)

\* the chatbot, driven by process_query calls
Spec == Init /\ [][OrchNext]_vars

\* the chatbot behind the web app, driven by questions and commands
SpecWeb == Init /\ [][WebNext]_vars

\* the chatbot as built by default, with one fallback model
InitConversation ==
    /\ CacheInit
    /\ WebInit
    /\ DispInit(SubSeq(ConfiguredKeys, 1, 1))
    /\ OrchInit(DefaultConfig)

\* the chatbot in one long conversation
SpecConversation == InitConversation /\ [][ConversationNext]_vars

\* main(): analytics enabled, and run_interactive_session has created the
\* first session
InitLoop ==
    /\ CacheInit
    /\ WebInit
    /\ DispInit(SubSeq(ConfiguredKeys, 1, 1))
    /\ config = DefaultConfig
    /\ LET st == create_session([sessions |-> <<>>, active |-> [k \in {} |-> 0],
                                 current |-> 0], 0)
       IN  /\ sessions = st.sessions
           /\ active_sessions = st.active
           /\ current_session = st.current
    /\ performance_metrics = [total_requests |-> 0, cache_hits |-> 0]
    /\ analytics_log = <<>>
    /\ pq_pc = "idle"
    /\ pq = NoCall
    /\ pq_ret = NoReturn
    /\ pq_calls = NoCalls
    /\ loop = "running"

\* the chatbot run by run_interactive_session
SpecLoop == InitLoop /\ [][LoopNext]_vars

\* web_app after initialize_chatbot("llama3.1:8b"), with one fallback model
InitClients ==
    /\ CacheInit
    /\ WebInit
    /\ DispInit(SubSeq(ConfiguredKeys, 1, 1))
    /\ OrchInit(WebConfig("llama3.1:8b"))

\* the web app, driven by the events of its clients
SpecClients == InitClients /\ [][ClientsNext]_vars

\* the web app when the threads of the handlers are scheduled and every
\* model invocation returns or fails (the models are built with a timeout)
SpecClientsFair ==
    /\ SpecClients
    /\ WF_vars(\E c \in Clients : H_Acquire(c))
    /\ WF_vars(HolderStep)

---------------------------------------------------------------------------
(* Claims about the cache, checked under SpecCache.                        *)

\* the step is a get / a set (the clock does not move in either)
GetStep == lastOp'.op = "get" /\ now' = now
SetStep == lastOp'.op = "set" /\ now' = now
OpKey(o) == _generate_key(o.query, o.context)

\* C1: a get returns None whenever the time elapsed since the most recent set
\* of its key is >= TTL, the boundary included, and returns a stored response
\* only while elapsed < TTL.  An entry's timestamp is the time of the most
\* recent set of its key: a set stamps the current time, and no other step
\* changes the timestamp of an entry that stays.
C1_TtlExpiry ==
    [][ /\ SetStep =>
             /\ HasKey(cache', OpKey(lastOp'))
             /\ Entry(cache', OpKey(lastOp')).timestamp = now
        /\ \A k \in Keys(cache) \cap Keys(cache') :
             ~(SetStep /\ OpKey(lastOp') = k) =>
                 Entry(cache', k).timestamp = Entry(cache, k).timestamp
        /\ GetStep =>
             LET k == OpKey(lastOp')
             IN  /\ (HasKey(cache, k) /\ now - Entry(cache, k).timestamp >= ttl_hours)
                        => lastOp'.result = None
                 /\ ~HasKey(cache, k) => lastOp'.result = None
                 /\ lastOp'.result.present =>
                        /\ HasKey(cache, k)
                        /\ now - Entry(cache, k).timestamp < ttl_hours
                        /\ lastOp'.result.value = Entry(cache, k).response
      ]_vars

\* a get exactly at the expiry boundary has returned None
C1_Witness ==
    /\ lastOp.op = "get"
    /\ lastOp.hadKey
    /\ lastOp.age = ttl_hours
    /\ lastOp.result = None

\* C2: the number of stored entries never exceeds max_size (and a key is
\* stored once)
C2_SizeBound ==
    /\ Len(cache) <= max_size
    /\ \A i, j \in 1..Len(cache) : cache[i].key = cache[j].key => i = j

\* a set of a new key on a full cache has left the cache full
C2_Witness ==
    /\ lastOp.op = "set"
    /\ lastOp.preLen = max_size
    /\ ~lastOp.hadKey
    /\ Len(cache) = max_size

\* C3: a set of a key that is not present, on a cache holding max_size
\* entries, removes exactly one entry, one of oldest creation time, leaves the
\* others as they were and adds the new entry
C3_EvictOldest ==
    [][ (SetStep /\ Len(cache) = max_size /\ ~HasKey(cache, OpKey(lastOp'))) =>
            \E i \in 1..Len(cache) :
                /\ \A j \in 1..Len(cache) : cache[i].timestamp <= cache[j].timestamp
                /\ Len(cache') = max_size
                /\ \A j \in 1..Len(cache) :
                       j # i => /\ HasKey(cache', cache[j].key)
                                /\ Entry(cache', cache[j].key) = cache[j]
                /\ ~HasKey(cache', cache[i].key)
                /\ HasKey(cache', OpKey(lastOp'))
                /\ Entry(cache', OpKey(lastOp')).response = lastOp'.response
                /\ Entry(cache', OpKey(lastOp')).timestamp = now
      ]_vars

\* the example of the claim: entries set at 0, 1, ... then one more set on the
\* full cache: the entry set at 0 is gone, the others and the new one remain
C3_Witness ==
    /\ lastOp.op = "set"
    /\ lastOp.preLen = max_size
    /\ ~lastOp.hadKey
    /\ Len(cache) = max_size
    /\ \A i \in 1..Len(cache) : cache[i].timestamp = i
    /\ now = max_size

\* lower(trim(q)), as the claim writes the normalisation
Normalized(q) == Lower(Strip(q))

\* C4: after set(q1, r, ctx), a get(q2, ctx) within the TTL returns r whenever
\* lower(trim(q1)) = lower(trim(q2))
C4_KeyNormalization ==
    [][ ( /\ lastOp.op = "set"
          /\ GetStep
          /\ lastOp'.context = lastOp.context
          /\ Normalized(lastOp'.query) = Normalized(lastOp.query)
          /\ HasKey(cache, OpKey(lastOp))
          /\ now - Entry(cache, OpKey(lastOp)).timestamp < ttl_hours )
        => lastOp'.result = Some(lastOp.response)
      ]_vars

\* a get has hit an entry that a set stored under another spelling of the query
C4_Witness ==
    /\ lastOp.op = "get"
    /\ lastOp.result.present
    /\ lastOp.setBy # lastOp.query
    /\ lastOp.age >= 0 /\ lastOp.age < ttl_hours

\* C31: two lookups share a key only if they have the same normalized query
\* and the same context: a get(q2, c2) misses when no set was ever made with
\* a query and a context such that (lower(trim(q1)), c1) = (lower(trim(q2)),
\* c2), also when another set spelled the same characters split differently
\* between query and context.  Checked under SpecSplit, whose sets are
\* SplitSets
C31_KeyPairsDistinct ==
    [][ ( /\ GetStep
          /\ \A s \in SplitSets :
                 <<Normalized(s.query), s.context>>
                     # <<Normalized(lastOp'.query), lastOp'.context>> )
        => lastOp'.result = None
      ]_vars

\* C32: a set on a key that is already in the cache only overwrites the
\* entry of that key: no entry of another key is removed or changed and the
\* number of entries stays the same, also when the cache is at max_size
C32_OverwriteInPlace ==
    [][ (SetStep /\ HasKey(cache, OpKey(lastOp'))) =>
            /\ Len(cache') = Len(cache)
            /\ Keys(cache') = Keys(cache)
            /\ \A k \in Keys(cache) \ {OpKey(lastOp')} :
                   HasKey(cache', k) /\ Entry(cache', k) = Entry(cache, k)
      ]_vars

\* C23: a get on an entry whose age is >= TTL removes that entry: the size
\* decreases by one, the key is gone and the get returns None; a get that
\* misses or hits removes nothing; and a key that is not in the cache comes
\* back only by a set of that key, so that later gets miss until then
C23_ExpiredRemoved ==
    [][ /\ GetStep =>
              LET k == OpKey(lastOp')
              IN  IF HasKey(cache, k) /\ now - Entry(cache, k).timestamp >= ttl_hours
                  THEN /\ Len(cache') = Len(cache) - 1
                       /\ ~HasKey(cache', k)
                       /\ Keys(cache') = Keys(cache) \ {k}
                       /\ lastOp'.result = None
                  ELSE /\ Len(cache') = Len(cache)
                       /\ Keys(cache') = Keys(cache)
                       /\ ~HasKey(cache, k) => (cache' = cache /\ lastOp'.result = None)
        /\ \A k \in Keys(cache') \ Keys(cache) : SetStep /\ OpKey(lastOp') = k
      ]_vars

\* a get found an expired entry beside another entry and removed it alone
C23_Witness ==
    /\ lastOp.op = "get"
    /\ lastOp.hadKey
    /\ lastOp.age >= ttl_hours
    /\ lastOp.preLen = 2
    /\ Len(cache) = 1
    /\ ~HasKey(cache, OpKey(lastOp))

\* the entries that stay in the cache in the step, the one under key k
\* excepted, keep their hit counts
OtherHitsKept(k) ==
    \A k2 \in (Keys(cache) \cap Keys(cache')) \ {k} :
        Entry(cache', k2).hits = Entry(cache, k2).hits

\* C24: the hit count of an entry is the number of gets that returned it
\* since the most recent set of its key: a get that returns the entry adds
\* exactly one to its count, a set, first insert or overwrite, leaves the
\* count of its key at 0, and a get that misses or finds the entry expired,
\* like every other step, changes no count
C24_HitCount ==
    [][ LET k == OpKey(lastOp')
        IN  /\ (GetStep /\ lastOp'.result.present) =>
                   /\ Entry(cache', k).hits = Entry(cache, k).hits + 1
                   /\ OtherHitsKept(k)
            /\ (GetStep /\ ~lastOp'.result.present) =>
                   \A k2 \in Keys(cache') : Entry(cache', k2).hits = Entry(cache, k2).hits
            /\ SetStep =>
                   /\ Entry(cache', k).hits = 0
                   /\ OtherHitsKept(k)
            /\ ~(GetStep \/ SetStep) =>
                   \A k2 \in Keys(cache') : Entry(cache', k2).hits = Entry(cache, k2).hits
      ]_vars

\* a get has returned an entry and counted its first hit, beside an entry
\* never returned
C24_Witness ==
    /\ lastOp.op = "get"
    /\ lastOp.result.present
    /\ Entry(cache, OpKey(lastOp)).hits = 1
    /\ \E k \in Keys(cache) : Entry(cache, k).hits = 0

\* C25: eviction goes by creation time, not by use: a get that hits leaves
\* the creation time and the response of every entry, and the order of the
\* entries, as they were, and a set on a full cache removes an entry of
\* earliest creation time and no other, however often the entries were read
C25_EvictsEarliestSet ==
    [][ /\ (GetStep /\ lastOp'.result.present) =>
               /\ Len(cache') = Len(cache)
               /\ \A i \in 1..Len(cache) :
                      /\ cache'[i].key = cache[i].key
                      /\ cache'[i].timestamp = cache[i].timestamp
                      /\ cache'[i].response = cache[i].response
        /\ (SetStep /\ Len(cache) >= max_size) =>
               \E i \in 1..Len(cache) :
                   /\ \A j \in 1..Len(cache) : cache[i].timestamp <= cache[j].timestamp
                   /\ cache[i].key # OpKey(lastOp') => ~HasKey(cache', cache[i].key)
                   /\ \A j \in 1..Len(cache) : j # i => HasKey(cache', cache[j].key)
      ]_vars

\* a set on a full cache has evicted an entry that had been read and kept one
\* set later that was never read
C25_Witness ==
    /\ lastOp.op = "set"
    /\ lastOp.preLen = max_size
    /\ ~lastOp.hadKey
    /\ lastOp.evictedHits >= 1
    /\ Len(cache) = max_size
    /\ \E i \in 1..Len(cache) :
           /\ cache[i].key # OpKey(lastOp)
           /\ cache[i].hits = 0

---------------------------------------------------------------------------
(* Claims about the dispatcher, checked under SpecDispatch.                *)

\* the configured order: the primary, then the initialised fallbacks
ConfiguredOrder == <<"primary">> \o models
PositionOf(key) == CHOOSE i \in 1..Len(ConfiguredOrder) : ConfiguredOrder[i] = key

EventsOf(kind) == { j \in 1..Len(gr_log) : gr_log[j].event = kind }
Attempted(key) == \E j \in EventsOf("invoke") : gr_log[j].key = key
FailedIn(key) == \E j \in EventsOf("fail") : gr_log[j].key = key
SucceededIn(key) == \E j \in EventsOf("ok") : gr_log[j].key = key
Returned == gr_pc = "done"

\* C5: get_response returns the response of the first candidate, in the order
\* primary, fallback 1, fallback 2, ..., whose invocation succeeds, tagged
\* with that candidate's key: every candidate before it was invoked and failed
C5_FirstSuccessWins ==
    (Returned /\ EventsOf("ok") # {}) =>
        LET j == CHOOSE j \in EventsOf("ok") : \A i \in EventsOf("ok") : j <= i
            key == gr_log[j].key
        IN  /\ key \in { ConfiguredOrder[i] : i \in 1..Len(ConfiguredOrder) }
            /\ gr_ret = [response |-> gr_log[j].result, model_key |-> key]
            /\ \A i \in 1..(PositionOf(key) - 1) :
                   \E f \in EventsOf("fail") : f < j /\ gr_log[f].key = ConfiguredOrder[i]
            /\ \A i \in (PositionOf(key) + 1)..Len(ConfiguredOrder) :
                   ~Attempted(ConfiguredOrder[i])

\* the example of the claim: the primary and the first fallback failed, the
\* second fallback succeeded and its response is returned under its key
C5_Witness ==
    /\ Returned
    /\ Len(models) = 2
    /\ FailedIn("primary") /\ FailedIn(models[1]) /\ SucceededIn(models[2])
    /\ gr_ret.model_key = ModelKey(fallback_models[2])
    /\ gr_ret.response = <<"n","o">>

\* C6: after get_response returns, every fallback that was attempted and
\* failed is recorded unhealthy with the error text of that failure, the
\* fallback that succeeded is recorded healthy, and the records of the
\* fallbacks that were not attempted are as they were when the call started
C6_HealthRecorded ==
    Returned =>
        \A i \in 1..Len(models) :
            LET k == models[i]
            IN  /\ FailedIn(k) =>
                       \E f \in EventsOf("fail") :
                           /\ gr_log[f].key = k
                           /\ model_health[k] = [healthy |-> FALSE,
                                                 last_error |-> gr_log[f].error]
                /\ SucceededIn(k) => model_health[k].healthy
                /\ ~Attempted(k) => model_health[k] = gr_health0[k]

\* a fallback healthy before the call failed and is recorded unhealthy, and
\* one unhealthy before the call succeeded and is recorded healthy
C6_Witness ==
    /\ Returned
    /\ Len(models) = 2
    /\ FailedIn(models[1]) /\ gr_health0[models[1]].healthy
    /\ ~model_health[models[1]].healthy
    /\ SucceededIn(models[2]) /\ ~gr_health0[models[2]].healthy
    /\ model_health[models[2]].healthy

\* C7: when the primary and every fallback fail, get_response returns the
\* fixed fallback message tagged "error", for any number of fallbacks
C7_Exhaustion ==
    (Returned /\ \A i \in 1..Len(ConfiguredOrder) : FailedIn(ConfiguredOrder[i])) =>
        gr_ret = [response |-> DifficultiesMsg, model_key |-> "error"]

\* an invocation that has ended in an error ends the call or leads to another
\* candidate: the call is never left in a state it cannot return from
C7_NoEscape ==
    /\ gr_pc \in {"idle", "try", "inflight", "done"}
    /\ gr_pc = "try" => gr_attempt + 1 <= Len(gr_candidates)
    /\ gr_pc = "inflight" => gr_attempt + 1 <= Len(gr_candidates)

\* C7 as checked: the exhaustion result and the call never stranded
C7_ExhaustionReturns == C7_Exhaustion /\ C7_NoEscape

\* the primary and all the configured fallbacks have failed
C7_Witness ==
    /\ Returned
    /\ Len(models) = MaxFallbacks
    /\ \A i \in 1..Len(ConfiguredOrder) : FailedIn(ConfiguredOrder[i])
    /\ gr_ret.model_key = "error"

\* C8: the candidates are invoked one after another in configured order: the
\* log is invoke 1, end 1, invoke 2, end 2, ..., so that no two invocations
\* are in flight together, candidate i+1 is invoked only after candidate i
\* has failed, and nothing follows a success
C8_Sequential ==
    /\ \A j \in 1..Len(gr_log) :
           /\ (j % 2 = 1) => /\ gr_log[j].event = "invoke"
                             /\ (j + 1) \div 2 <= Len(ConfiguredOrder)
                             /\ gr_log[j].key = ConfiguredOrder[(j + 1) \div 2]
           /\ (j % 2 = 0) => /\ gr_log[j].event \in {"ok", "fail"}
                             /\ gr_log[j].key = gr_log[j-1].key
           /\ gr_log[j].event = "ok" => j = Len(gr_log)
           /\ (gr_log[j].event = "invoke" /\ j > 1) => gr_log[j-1].event = "fail"
    /\ Cardinality(EventsOf("invoke")) - Cardinality(EventsOf("ok") \cup EventsOf("fail")) \in {0, 1}

\* every candidate was invoked in turn and the last one succeeded
C8_Witness ==
    /\ Returned
    /\ Len(models) = MaxFallbacks
    /\ Len(gr_log) = 2 * Len(ConfiguredOrder)
    /\ gr_log[Len(gr_log)].event = "ok"

\* the raw result of the invocation that ended the call with a success
LastRaw == gr_log[Len(gr_log)].raw

\* the shapes the normalization supports: an object with content, a dict with
\* 'text', a non-empty list, a plain string
Supported(raw) ==
    \/ raw.kind \in {"message", "dict", "str"}
    \/ raw.kind = "list" /\ Len(raw.items) > 0

\* the text of a raw result that is to be returned trimmed
TextOf(raw) == IF raw.kind = "list" THEN raw.items[1] ELSE raw.text

AllWhitespace(t) == \A i \in 1..Len(t) : t[i] \in Whitespace

\* s is t without its leading and trailing whitespace
IsTrimOf(s, t) ==
    /\ s # <<>> => (s[1] \notin Whitespace /\ s[Len(s)] \notin Whitespace)
    /\ \E i \in 0..Len(t) : \E j \in i..Len(t) :
           /\ AllWhitespace(SubSeq(t, 1, i))
           /\ s = SubSeq(t, i + 1, j)
           /\ AllWhitespace(SubSeq(t, j + 1, Len(t)))

\* C15: for a successful raw result of each supported shape get_response
\* returns one trimmed string: the trimmed text of a plain string, the trimmed
\* text field of a structured object, the trimmed first element of a
\* non-empty list
C15_Normalization ==
    (Returned /\ EventsOf("ok") # {} /\ Supported(LastRaw)) =>
        IsTrimOf(gr_ret.response, TextOf(LastRaw))

\* a list whose first element carries outer whitespace was returned trimmed
C15_Witness ==
    /\ Returned
    /\ EventsOf("ok") # {}
    /\ LastRaw.kind = "list"
    /\ LastRaw.items # <<>>
    /\ LastRaw.items[1] # gr_ret.response
    /\ gr_ret.response = <<"o","k">>

\* the number of invocations of a candidate in the call
InvocationsOf(key) == Cardinality({ j \in EventsOf("invoke") : gr_log[j].key = key })

\* no candidate is invoked twice and the invocations number at most one more
\* than the initialised fallbacks
C18_Bound ==
    /\ \A i \in 1..Len(ConfiguredOrder) : InvocationsOf(ConfiguredOrder[i]) <= 1
    /\ Cardinality(EventsOf("invoke")) <= 1 + Len(models)

\* C18: within one get_response call no candidate is invoked more than once,
\* so the call makes at most 1 + (number of initialised fallbacks)
\* invocations, and it returns, provided each invocation returns or fails
C18_NoRetryAndReturns ==
    /\ []C18_Bound
    /\ (gr_pc \in {"try", "inflight"}) ~> Returned

\* a call that made all its 1 + MaxFallbacks invocations and returned
C18_Witness ==
    /\ Returned
    /\ Len(models) = MaxFallbacks
    /\ Cardinality(EventsOf("invoke")) = 1 + Len(models)
    /\ \A i \in 1..Len(ConfiguredOrder) : InvocationsOf(ConfiguredOrder[i]) = 1

\* the last element of the list the loop runs over
LastCandidate == ConfiguredOrder[Len(ConfiguredOrder)]

\* C19: the exhaustion check fires exactly at the last element of
\* [primary] + fallbacks, for every number of fallbacks: the exhaustion result
\* is returned only when no untried candidate remains, it is returned as soon
\* as the last candidate has failed, total failure gives the one fixed
\* message, and the return after the loop is never reached
C19_ExhaustionAtLast ==
    /\ gr_ret.response # UnavailableMsg
    /\ gr_ret.model_key = "error" =>
           /\ Returned
           /\ gr_ret.response = DifficultiesMsg
           /\ \A i \in 1..Len(ConfiguredOrder) : FailedIn(ConfiguredOrder[i])
           /\ gr_log[Len(gr_log)].key = LastCandidate
    /\ (gr_pc # "idle" /\ gr_candidates = ConfiguredOrder /\ FailedIn(LastCandidate)) =>
           /\ Returned
           /\ gr_ret.model_key = "error"

\* with no fallback at all the failure of the primary is the exhaustion
C19_Witness ==
    /\ Returned
    /\ models = <<>>
    /\ FailedIn("primary")
    /\ gr_ret = [response |-> DifficultiesMsg, model_key |-> "error"]

\* the keys of the initialised fallbacks
FallbackKeys == { models[i] : i \in 1..Len(models) }

\* C20: the keys of the health records are those of the initialised
\* fallbacks in every state; the primary has no record, the end of an
\* invocation of the primary leaves the records as they are, and no step
\* removes a record
C20_HealthKeys ==
    /\ [](DOMAIN model_health = FallbackKeys /\ "primary" \notin DOMAIN model_health)
    /\ [][ /\ DOMAIN model_health \subseteq DOMAIN model_health'
           /\ (gr_pc = "inflight" /\ CurrentKey = "primary") => model_health' = model_health
         ]_vars

\* the primary has failed in a call, a fallback has been marked unhealthy,
\* and the records are those of the two fallbacks
C20_Witness ==
    /\ Len(models) = 2
    /\ FailedIn("primary")
    /\ \E k \in FallbackKeys : ~model_health[k].healthy
    /\ DOMAIN model_health = FallbackKeys

\* C33: in every reachable state a health record with healthy = true carries
\* no last error: a fallback that failed in an earlier query and succeeds in
\* a later one has a healthy record whose last_error is cleared
C33_HealthyHasNoError ==
    \A k \in DOMAIN model_health :
        model_health[k].healthy => model_health[k].last_error = NoError

\* the last event of the log after the step
LastEvent == gr_log'[Len(gr_log')]

\* C34: recorded health never changes which candidates are attempted: the
\* n-th invocation of a call is that of the n-th candidate in configured
\* order, whatever its health record says, and after a failure of any
\* candidate but the last the call goes on to the next one; so a fallback
\* marked unhealthy by an earlier query is invoked again, in its configured
\* position, by every later query in which the candidates before it failed
C34_HealthIgnored ==
    [][ /\ (gr_pc = "try" /\ gr_pc' = "inflight") =>
               /\ LastEvent.event = "invoke"
               /\ (Len(gr_log) \div 2) + 1 <= Len(ConfiguredOrder)
               /\ LastEvent.key = ConfiguredOrder[(Len(gr_log) \div 2) + 1]
        /\ ( /\ gr_pc = "inflight" /\ gr_pc' # "inflight"
              /\ LastEvent.event = "fail"
              /\ Len(gr_log') \div 2 < Len(ConfiguredOrder) )
            => gr_pc' = "try"
      ]_vars

\* a fallback that an earlier query had marked unhealthy is being invoked,
\* the candidates before it having failed
C34_Witness ==
    /\ gr_pc = "inflight"
    /\ Len(gr_log) >= 3
    /\ LET e == gr_log[Len(gr_log)]
       IN  /\ e.event = "invoke"
           /\ e.key # "primary"
           /\ ~gr_health0[e.key].healthy
           /\ ~model_health[e.key].healthy
           /\ e.key = ConfiguredOrder[(Len(gr_log) + 1) \div 2]

---------------------------------------------------------------------------
(* Claims about process_query, checked under Spec.                         *)

\* the step is process_query running from its call to its return or its await
BeginStep ==
    /\ pq_pc = "idle"
    /\ \/ pq_pc' = "awaiting"
       \/ performance_metrics'.total_requests = performance_metrics.total_requests + 1

\* the call returned in that step, leaving the cache and the dispatcher alone
ReturnedUntouched(message) ==
    /\ pq_pc' = "idle"
    /\ pq_ret'.response = message
    /\ cache' = cache
    /\ UNCHANGED dispVars
    /\ pq_calls' = NoCalls

\* C9: input longer than max_input_length gets the "too long" message without
\* a read or a write of the cache and without a call of the dispatcher, and
\* only input strictly longer than the limit is rejected by this check
C9_TooLongRejected ==
    [][ BeginStep =>
          /\ Len(pq'.user_input) > max_input_length => ReturnedUntouched(TooLongMsg)
          /\ (pq_pc' = "idle" /\ pq_ret'.response = TooLongMsg)
                 => Len(pq'.user_input) > max_input_length
      ]_vars

\* a too long input was rejected while the cache held an entry
C9_Witness ==
    /\ pq_pc = "idle"
    /\ pq_ret.outcome = "too_long"
    /\ Len(pq.user_input) > max_input_length
    /\ pq_ret.response = TooLongMsg
    /\ cache # <<>>

\* the text matches one of the filter's patterns, case ignored
MatchesFilter(text) ==
    \E p \in 1..Len(inappropriate_patterns) :
        Search(inappropriate_patterns[p], Lower(text))

\* C10: with content filtering enabled, input within the length limit that
\* matches the filter's patterns gets the refusal message and reaches neither
\* the cache nor the dispatcher
C10_FilteredRejected ==
    [][ ( /\ BeginStep
          /\ config.enable_content_filtering
          /\ Len(pq'.user_input) <= max_input_length
          /\ MatchesFilter(pq'.user_input) )
        => ReturnedUntouched(RefusalMsg)
      ]_vars

\* an upper-case spelling of a filtered word was refused while the cache held
\* an entry
C10_Witness ==
    /\ pq_pc = "idle"
    /\ pq_ret.outcome = "refused"
    /\ pq.user_input = <<"H","A","C","K">>
    /\ pq_ret.response = RefusalMsg
    /\ cache # <<>>

\* C11: whenever the cache holds an unexpired entry for the query and the
\* current context, whatever response is stored, process_query returns the
\* stored response with cached = true and does not call the dispatcher
C11_CachedShortCircuit ==
    [][ LET key == _generate_key(pq'.user_input, pq'.context)
        IN  ( /\ BeginStep
              /\ ~TooLong(pq'.user_input)
              /\ ~_is_inappropriate_content(pq'.user_input)
              /\ HasKey(cache, key)
              /\ Fresh(Entry(cache, key), now) )
            => /\ pq_pc' = "idle"
               /\ pq_ret'.response = Entry(cache, key).response
               /\ pq_ret'.metadata.cached
               /\ UNCHANGED dispVars
      ]_vars

\* the step is process_query running from the return of get_response to its
\* own return
FinishStep == pq_pc = "awaiting" /\ pq_pc' = "idle"

\* log_interaction was called and raised: analytics is enabled and the step
\* has left no interaction in the log
LogRaised == FinishStep /\ config.enable_analytics /\ analytics_log' = analytics_log

\* C13: an exception raised in the steps of process_query is caught inside
\* it: the call returns the fixed "processing error" message, the session's
\* errors_encountered grows by exactly one, and the request is counted; a turn
\* that raises nothing leaves errors_encountered as it was
C13_ExceptionsCaught ==
    [][ FinishStep =>
          LET before == sessions[pq.session]
              after == sessions'[pq.session]
          IN  /\ LogRaised =>
                     /\ pq_ret'.response = ProcessingErrorMsg
                     /\ pq_ret'.metadata.error # NoError
                     /\ after.errors_encountered = before.errors_encountered + 1
              /\ ~LogRaised => after.errors_encountered = before.errors_encountered
              /\ performance_metrics'.total_requests =
                     performance_metrics.total_requests + 1
      ]_vars

\* a turn whose log_interaction raised has returned the error message
C13_Witness ==
    /\ pq_pc = "idle"
    /\ pq_ret.outcome = "error"
    /\ pq_ret.response = ProcessingErrorMsg
    /\ sessions[pq.session].errors_encountered = 1
    /\ analytics_log = <<>>

\* C14: after a cache miss the value stored under the key of the query and
\* the context is the dispatcher's response before translation, also when the
\* response returned was translated
C14_CachesPreTranslation ==
    (pq_pc = "idle" /\ pq_ret.outcome = "answered") =>
        LET key == _generate_key(pq.user_input, pq.context)
        IN  /\ HasKey(cache, key)
            /\ Entry(cache, key).response = gr_ret.response

---------------------------------------------------------------------------
(* Claims about the session life cycle, checked under SpecLoop and SpecWeb. *)

\* the calls of log_session made for the session at position ref
FlushesOf(log, ref) == { i \in Flushes(log) : log[i].session = ref }

\* the session at position ref is stored in the active-session set
IsActive(active, ref) == \E k \in DOMAIN active : active[k] = ref

\* C12: in the interactive loop, after max_conversation_turns turns in a
\* session the next turn runs on a session with a new id and questions_count
\* 0, and the prior session was flushed by log_session exactly once and
\* removed from the active-session set
C12_Rollover ==
    [][ ( /\ BeginStep
          /\ loop = "running"
          /\ sessions[current_session].questions_count >= max_conversation_turns )
        => /\ pq'.session # current_session
           /\ current_session' = pq'.session
           /\ sessions'[pq'.session].id # sessions[current_session].id
           /\ sessions'[pq'.session].questions_count = 0
           /\ Cardinality(FlushesOf(analytics_log', current_session)) = 1
           /\ ~IsActive(active_sessions', current_session)
      ]_vars

\* the step is handle_special_commands ending the current session: a clear
\* command, which creates a session, or an exit command, which logs one
EndingCommandStep ==
    /\ pq_pc = "idle" /\ pq_pc' = "idle"
    /\ pq' = pq
    /\ current_session # 0
    /\ \/ Len(sessions') > Len(sessions)
       \/ Len(analytics_log') > Len(analytics_log)

\* C16: after an explicit clear or exit command the id of the session it
\* ended is no longer a key of active_sessions
C16_DroppedOnCommand ==
    [][ EndingCommandStep =>
            sessions[current_session].id \notin DOMAIN active_sessions'
      ]_vars

---------------------------------------------------------------------------
(* Claims about the turn process_query records.                            *)

\* the exchange the step has appended to the history of its session
LastExchange ==
    LET h == sessions'[pq.session].conversation_history IN h[Len(h)]

\* C21: a turn the dispatcher answers after a cache miss appends exactly one
\* entry to the history of its session, holding the question, the response
\* and the metadata of the turn, increments questions_count by exactly one,
\* adds the response time of the turn to total_response_time and, when
\* analytics is enabled, calls log_interaction exactly once, which adds one
\* event for that turn to the log unless the call fails; no other session
\* changes
C21_TurnRecorded ==
    [][ FinishStep =>
          LET before == sessions[pq.session]
              after == sessions'[pq.session]
          IN  /\ Len(after.conversation_history) = Len(before.conversation_history) + 1
              /\ SubSeq(after.conversation_history, 1, Len(before.conversation_history))
                     = before.conversation_history
              /\ LastExchange.question = pq.user_input
              /\ LastExchange.metadata = pq_ret'.metadata
              /\ ~LogRaised => LastExchange.response = pq_ret'.response
              /\ LastExchange.metadata.response_time = now - pq.start_time
              /\ after.questions_count = before.questions_count + 1
              /\ after.total_response_time =
                     before.total_response_time + (now - pq.start_time)
              /\ \A i \in 1..Len(sessions) : i # pq.session => sessions'[i] = sessions[i]
              /\ pq_calls'.logs = IF config.enable_analytics THEN 1 ELSE 0
              /\ (config.enable_analytics /\ ~LogRaised) =>
                     /\ Len(analytics_log') = Len(analytics_log) + 1
                     /\ SubSeq(analytics_log', 1, Len(analytics_log)) = analytics_log
                     /\ LET e == analytics_log'[Len(analytics_log')]
                        IN  /\ e.call = "log_interaction"
                            /\ e.session_id = before.id
                            /\ e.question = pq.user_input
                            /\ e.response = pq_ret'.response
              /\ ~config.enable_analytics => analytics_log' = analytics_log
      ]_vars

\* a turn that took time was answered and recorded, and its event logged
C21_Witness ==
    /\ pq_pc = "idle"
    /\ pq_ret.outcome = "answered"
    /\ pq_ret.metadata.response_time > 0
    /\ sessions[pq.session].questions_count = 1
    /\ sessions[pq.session].total_response_time = pq_ret.metadata.response_time
    /\ Len(sessions[pq.session].conversation_history) = 1
    /\ pq_calls.logs = 1
    /\ \E i \in 1..Len(analytics_log) :
           /\ analytics_log[i].call = "log_interaction"
           /\ analytics_log[i].question = pq.user_input

\* "User: " and "Assistant: " before the question and the response of the
\* exchange at position i of the history h
LinesOf(h, i) ==
    <<"User: ">> \o h[i].question \o <<"\n">> \o <<"Assistant: ">> \o h[i].response

\* the exchanges of h from position i to the last, as lines joined by newlines
WindowFrom(h, i) ==
    LET f[j \in i..Len(h)] ==
            IF j = i THEN LinesOf(h, j) ELSE f[j - 1] \o <<"\n">> \o LinesOf(h, j)
    IN  IF i > Len(h) THEN <<>> ELSE f[Len(h)]

\* the last min(3, n) exchanges of the history h of length n
ExpectedContext(h) ==
    LET n == Len(h)
        k == IF n < 3 THEN n ELSE 3
    IN  WindowFrom(h, n - k + 1)

\* C22: the context process_query builds is made of exactly the last
\* min(3, n) question/response pairs of the session's history, in history
\* order, joined by newlines, and is empty for an empty history; that context
\* is the one passed to the dispatcher and the one in the key under which the
\* cache is read and the answer stored
C22_ContextWindow ==
    [][ /\ ( /\ BeginStep
             /\ ~TooLong(pq'.user_input)
             /\ ~_is_inappropriate_content(pq'.user_input) )
           => LET expected ==
                      ExpectedContext(sessions'[pq'.session].conversation_history)
                  key == _generate_key(pq'.user_input, expected)
              IN  /\ pq'.context = expected
                  /\ pq_calls'.gets = 1
                  /\ pq_pc' = "awaiting" => gr_args'.context = expected
                  /\ (HasKey(cache, key) /\ Fresh(Entry(cache, key), now)
                        /\ Entry(cache, key).response # <<>>)
                       => /\ pq_ret'.outcome = "hit"
                          /\ Entry(cache', key).hits = Entry(cache, key).hits + 1
                  /\ ~HasKey(cache, key) => pq_pc' = "awaiting"
        /\ FinishStep
           => LET expected == ExpectedContext(sessions[pq.session].conversation_history)
                  key == _generate_key(pq.user_input, expected)
              IN  /\ HasKey(cache', key)
                  /\ Entry(cache', key).timestamp = now
                  /\ Keys(cache') = Keys(cache) \cup {key}
      ]_vars

\* a question asked with four exchanges in the history was sent to the
\* dispatcher with the last three of them as its context
C22_Witness ==
    /\ pq_pc = "awaiting"
    /\ Len(sessions[pq.session].conversation_history) = 4
    /\ gr_args.context = ExpectedContext(sessions[pq.session].conversation_history)
    /\ gr_args.context
           # WindowFrom(sessions[pq.session].conversation_history, 1)

---------------------------------------------------------------------------
(* Claims about translation, checked under Spec.                           *)

\* C26: on a cache miss the dispatcher's response is passed through the
\* translator exactly when the preferred language of the session differs
\* from the configured default language, whatever that default is
C26_TranslatesIffNotDefault ==
    [][ FinishStep =>
          ( pq_calls'.translation # "skipped"
            <=> sessions[pq.session].preferred_language # config.default_language )
      ]_vars

\* C27: when a turn needs translation and the translator is unavailable or
\* returns nothing, the response recorded for the turn is the dispatcher's
\* response in the original language, and the turn completes as any other:
\* that response is returned with no error and errors_encountered is
\* unchanged, unless the logging of the turn fails
C27_TranslationUnavailable ==
    [][ (FinishStep /\ pq_calls'.translation = "absent") =>
          /\ LastExchange.response = gr_ret.response
          /\ sessions'[pq.session].questions_count
                 = sessions[pq.session].questions_count + 1
          /\ ~LogRaised =>
                 /\ pq_ret'.response = gr_ret.response
                 /\ pq_ret'.outcome = "answered"
                 /\ pq_ret'.metadata.error = NoError
                 /\ sessions'[pq.session].errors_encountered
                        = sessions[pq.session].errors_encountered
      ]_vars

\* a turn in Spanish whose translation was absent returned the model's
\* answer as it was
C27_Witness ==
    /\ pq_pc = "idle"
    /\ pq_calls.translation = "absent"
    /\ sessions[pq.session].preferred_language = "es"
    /\ pq_ret.outcome = "answered"
    /\ pq_ret.response = gr_ret.response
    /\ pq_ret.response # <<>>
    /\ sessions[pq.session].errors_encountered = 0

---------------------------------------------------------------------------
(* Claims about what a turn leaves behind, checked under Spec and SpecWeb.  *)

\* C28: a dispatcher result tagged "error", returned when every candidate
\* has failed, is never stored in the cache
C28_ErrorsNotCached ==
    [][ (FinishStep /\ gr_ret.model_key = "error") => cache' = cache ]_vars

\* C29: when process_query returns the "processing error" message, the cache
\* and the session's conversation_history, questions_count and
\* total_response_time are as they were before; only errors_encountered and
\* total_requests have changed
C29_ErrorLeavesNoTrace ==
    [][ (FinishStep /\ pq_ret'.response = ProcessingErrorMsg) =>
          LET before == sessions[pq.session]
              after == sessions'[pq.session]
          IN  /\ cache' = cache
              /\ after.conversation_history = before.conversation_history
              /\ after.questions_count = before.questions_count
              /\ after.total_response_time = before.total_response_time
      ]_vars

\* the step is process_query returning a response found in the cache
HitStep == BeginStep /\ pq_pc' = "idle" /\ pq_ret'.outcome = "hit"

\* C30: a turn served from the cache leaves the session as it was: nothing
\* is appended to conversation_history, questions_count and
\* total_response_time do not move and no log_interaction event is emitted;
\* so the turn does not count toward the turn ceiling and the context of the
\* next turn is the context of this one.  The dispatcher is not called
C30_CachedTurnLeavesSession ==
    [][ HitStep =>
          /\ pq_ret'.metadata.cached
          /\ current_session # 0
          /\ pq'.session = current_session
          /\ sessions' = sessions
          /\ analytics_log' = analytics_log
          /\ pq_calls'.logs = 0
          /\ TurnsReached(sessions'[pq'.session]) = TurnsReached(sessions[pq'.session])
          /\ _format_conversation_context(sessions'[pq'.session]) = pq'.context
          /\ UNCHANGED dispVars
          /\ performance_metrics'.cache_hits = performance_metrics.cache_hits + 1
      ]_vars

\* a question was answered from the cache in a session that has no turn
C30_Witness ==
    /\ pq_pc = "idle"
    /\ pq_ret.outcome = "hit"
    /\ pq_ret.metadata.cached
    /\ pq_ret.response # <<>>
    /\ sessions[pq.session].questions_count = 0
    /\ sessions[pq.session].conversation_history = <<>>
    /\ performance_metrics.cache_hits = 1

---------------------------------------------------------------------------
(* Claims about sessions, checked under SpecWeb.                           *)

\* C35: create_session never gives a session the id of a session created
\* earlier by the same chatbot, cleared and rolled-over sessions included,
\* also when sessions are created or cleared within the same second
C35_SessionIdsUnique ==
    \A i, j \in 1..Len(sessions) : i # j => sessions[i].id # sessions[j].id

\* C36: whenever current_session is set, it is the session that
\* active_sessions holds under the id of the current session, whatever
\* questions, clear and exit commands and rollovers came before.
C36_CurrentIsActive ==
    current_session # 0 =>
        /\ sessions[current_session].id \in DOMAIN active_sessions
        /\ active_sessions[sessions[current_session].id] = current_session

\* a session was ended and the one created in its place, the current one,
\* was given the id of the ended one
C36_Witness ==
    /\ current_session > 1
    /\ sessions[current_session].id = sessions[current_session - 1].id
    /\ sessions[current_session - 1].questions_count > 0
    /\ Flushes(analytics_log) # {}

\* C37: the turn ceiling holds on every entry point that processes queries:
\* the questions_count of a session never exceeds max_conversation_turns,
\* also when the turns arrive through the web app's send_message handler
C37_TurnCeiling ==
    \A i \in 1..Len(sessions) : sessions[i].questions_count <= max_conversation_turns

---------------------------------------------------------------------------
(* Claims about the web app, checked under SpecClients and                 *)
(* SpecClientsFair.                                                         *)

\* the handler of client c begins a turn of process_query
TurnBegins(c) == InBody(c, "send_message") /\ clients'[c].pc = "turn"

\* C38: in the web app the sessions of different connected clients are
\* independent: every message of a client is processed against the session
\* created for that client (at its connect, or since then by its own clear or
\* its own first question), whatever other clients connected, cleared or
\* sent in between.
C38_ClientsIndependent ==
    [][ \A c \in Clients : TurnBegins(c) => pq'.session = clients'[c].session ]_vars

\* the handler of client c is inside its "with chatbot_lock:" block
InBlock(c) == clients[c].pc \in { "locked", "turn", "done" }

\* a turn of process_query has begun and has not returned
TurnInFlight == \E c \in Clients : clients[c].pc = "turn" /\ pq_pc = "awaiting"

\* a handler inside the block holds the lock, so at most one handler is
\* inside, and process_query runs only in the handler that holds the lock
C39_Exclusive ==
    /\ \A c \in Clients : InBlock(c) => chatbot_lock = c
    /\ pq_pc = "awaiting" =>
          /\ chatbot_lock # 0
          /\ clients[chatbot_lock].pc = "turn"

\* while a turn is in flight no other turn begins, nothing switches the
\* model or the chatbot, and nothing clears or creates a session: the
\* cache changes only as the turn returns and the health of a model only as
\* its invocation by the turn ends
C39_TurnUntouched ==
    TurnInFlight =>
        /\ pq' = pq
        /\ config' = config
        /\ models' = models
        /\ active_sessions' = active_sessions
        /\ current_session' = current_session
        /\ Len(sessions') = Len(sessions)
        /\ cache' # cache => pq_pc' = "idle"
        /\ model_health' # model_health => gr_pc = "inflight"

\* the lock is taken only when it is free: no handler takes it while a
\* handler, itself included, holds it
C39_NoReacquire ==
    (chatbot_lock' # chatbot_lock /\ chatbot_lock' # 0) => chatbot_lock = 0

\* the lock, once taken, is released
C39_Released == (chatbot_lock # 0) ~> (chatbot_lock = 0)

\* a handler that waits for the lock enters its block
C39_Served ==
    \A c \in Clients : (clients[c].pc = "waiting") ~> (clients[c].pc = "locked")

===========================================================================
